---- MODULE Spec2Model ----
(***************************************************************************)
(* OpenClaw gateway client: the connection (OpenClawGatewayConnection.ts), *)
(* the device token store (deviceAuthStore.ts) and the signed payload      *)
(* (deviceIdentity.ts).                                                    *)
(*                                                                         *)
(* The connection object's fields are the variables.  Every handler of the *)
(* class is an operator from a state record to a state record, so that a   *)
(* handler calling another one (handleMessage -> sendConnect -> request)   *)
(* is operator application; an action applies one handler to the current   *)
(* state.  Promise reactions (the then/catch of sendConnect) are           *)
(* microtasks: they run when the handler that settled the promise has      *)
(* returned and before any other event, so they are applied at the end of  *)
(* that handler's action.                                                  *)
(***************************************************************************)
EXTENDS Integers, Sequences, FiniteSets, TLC

VARIABLES
    sock,               \* the WebSocket objects created by start(): slot -> readyState
    ws,                 \* this.ws: a slot, or 0 for null
    closed,             \* this.closed
    pending,            \* this.pending: request id -> PendingRequest
    backoffMs,          \* this.backoffMs
    reconnectAttempts,  \* this.reconnectAttempts
    reconnectTimer,     \* this.reconnectTimer: 0 for null, else the delay it was armed with
    strayTimers,        \* reconnect timeouts pending that this.reconnectTimer no longer refers to
    connectNonce,       \* this.connectNonce
    connectSent,        \* this.connectSent
    connectTimer,       \* this.connectTimer is armed
    tickTimer,          \* this.tickTimer is armed
    lastTick,           \* this.lastTick: unset, or the time elapsed since the mark
    tickIntervalMs,     \* this.tickIntervalMs
    lastSeq,            \* this.lastSeq: unset, or the seq of the last event that carried one
    isConnected,        \* this._isConnected
    helloOk,            \* this._helloOk is set
    store,              \* the device-auth.json file
    identity,           \* the device.json file
    opts,               \* this.opts: token, password, role
    futures,            \* the promises request() returned: request id -> promise state
    wire,               \* the connect frames written to each live transport
    calls,              \* the caller's callbacks invoked by the last step, in order
    hist                \* transport closures and reconnects scheduled since the last hello-ok

vars == <<sock, ws, closed, pending, backoffMs, reconnectAttempts, reconnectTimer, strayTimers,
          connectNonce, connectSent, connectTimer, tickTimer, lastTick, tickIntervalMs, lastSeq,
          isConnected,
          helloOk, store, identity, opts, futures, wire, calls, hist>>

----------------------------------------------------------------------------
\* Bounds of the model.

\* WebSocket objects alive at the same time
MaxSock == 2
\* consecutive failed attempts after which no further transport is explored
MaxFailures == 2
\* attempts explored beyond maxReconnectAttempts
MaxExtra == 1
\* application requests held by the caller at the same time
MaxRequests == 1
\* reconnect timeouts pending beside the one this.reconnectTimer refers to
MaxStray == 1
\* the same as MaxFailures, where start() is called in any state
MaxFreeFailures == 1
\* the same, where the claim is about concurrent requests
MaxMuxRequests == 2

\* event frames delivered in one behaviour
MaxEvents == 3
\* the longest time since the liveness mark that is told apart, ms
MaxAgeMs == 90000

\* Program constants.
BaseBackoffMs == 1000
DefaultTickMs == 30000
CloseConnectFailed == 1008
CloseTickTimeout == 4000
MaxBackoffMs == 30000
maxReconnectAttempts == 10

None == "none"
DeviceId == "dev"
OtherDeviceId == "dev0"
ClientId == "gateway-client"
ClientMode == "backend"
SignedAt == "now"
Scopes == <<"operator.admin">>

Socks == 1..MaxSock
Nonces == {"n1", "n2"}
\* payload.nonce of a connect.challenge: a nonce, none, or the empty string
ChallengeNonces == Nonces \cup {None, ""}
\* roles are strings: sequences of characters
RoleO == <<"o">>
RoleV == <<"v">>
RolePadded == <<" ", "o">>

Min(a, b) == IF a < b THEN a ELSE b

EmptyMap == [k \in {} |-> None]
MapPut(m, k, v) == [x \in DOMAIN m \cup {k} |-> IF x = k THEN v ELSE m[x]]
MapDel(m, k) == [x \in DOMAIN m \ {k} |-> m[x]]

----------------------------------------------------------------------------
\* deviceAuthStore.ts

RECURSIVE TrimLeft(_)
TrimLeft(r) == IF r # <<>> /\ Head(r) = " " THEN TrimLeft(Tail(r)) ELSE r

RECURSIVE TrimRight(_)
TrimRight(r) ==
    IF r # <<>> /\ r[Len(r)] = " " THEN TrimRight(SubSeq(r, 1, Len(r) - 1)) ELSE r

normalizeRole(role) == TrimRight(TrimLeft(role))

\* the order of Array.prototype.sort() without a comparator: by UTF-16 code unit
CharOrd(c) == CASE c = " " -> 32 [] c = "a" -> 97 [] c = "b" -> 98 [] c = "o" -> 111 [] OTHER -> 118
RECURSIVE StrLeq(_, _)
StrLeq(x, y) ==
    IF x = <<>> THEN TRUE
    ELSE IF y = <<>> THEN FALSE
    ELSE IF Head(x) # Head(y) THEN CharOrd(Head(x)) < CharOrd(Head(y))
    ELSE StrLeq(Tail(x), Tail(y))

RECURSIVE SortSet(_)
SortSet(S) ==
    IF S = {} THEN <<>>
    ELSE LET m == CHOOSE x \in S : \A y \in S : StrLeq(x, y)
         IN  <<m>> \o SortSet(S \ {m})

\* mutant: the scopes are kept as they were given
normalizeScopesRaw(scopes) == scopes

\* normalizeScopes: a Set of the trimmed, non-empty scopes, spread and sorted; scopes
\* that are not given are the empty list
normalizeScopes(scopes) ==
    SortSet({TrimRight(TrimLeft(scopes[i])) : i \in 1..Len(scopes)} \ {<<>>})

\* a missing or unreadable file: readStore returns null
\* form is what the file holds when readStore returns null: nothing ("missing"), text
\* that is not JSON ("text"), JSON of another version ("version"), JSON without a
\* token table ("notable")
NoStore == [exists |-> FALSE, form |-> "missing", deviceId |-> None, tokens |-> EmptyMap]
\* the token of an entry whose token is not a string
NotAString == "<not a string>"
NoEntry == [found |-> FALSE, token |-> None]

\* mutant: the file's deviceId is not compared
loadDeviceAuthTokenAny(file, deviceId, role) ==
    IF ~file.exists THEN NoEntry
    ELSE LET key == normalizeRole(role) IN
         IF key \notin DOMAIN file.tokens THEN NoEntry
         ELSE [found |-> TRUE, token |-> file.tokens[key].token]

loadDeviceAuthToken(file, deviceId, role) ==
    IF ~file.exists THEN NoEntry
    ELSE IF file.deviceId # deviceId THEN NoEntry
    ELSE LET key == normalizeRole(role) IN
         IF key \notin DOMAIN file.tokens THEN NoEntry
         ELSE IF file.tokens[key].token = NotAString THEN NoEntry
         ELSE [found |-> TRUE, token |-> file.tokens[key].token]

\* mutant: the table always starts empty
storeDeviceAuthTokenFresh(file, deviceId, role, token, scopes) ==
    LET key == normalizeRole(role)
        entry == [token |-> token, role |-> key, scopes |-> normalizeScopes(scopes)]
    IN  [exists |-> TRUE, form |-> "store", deviceId |-> deviceId,
         tokens |-> MapPut(EmptyMap, key, entry)]

storeDeviceAuthToken(file, deviceId, role, token, scopes) ==
    LET key == normalizeRole(role)
        kept == IF file.exists /\ file.deviceId = deviceId THEN file.tokens ELSE EmptyMap
        entry == [token |-> token, role |-> key, scopes |-> normalizeScopes(scopes)]
    IN  [exists |-> TRUE, form |-> "store", deviceId |-> deviceId,
         tokens |-> MapPut(kept, key, entry)]

\* mutant: the whole table is emptied
clearDeviceAuthTokenAll(file, deviceId, role) ==
    IF ~file.exists \/ file.deviceId # deviceId THEN file
    ELSE LET key == normalizeRole(role) IN
         IF key \notin DOMAIN file.tokens THEN file
         ELSE [file EXCEPT !.tokens = EmptyMap]

clearDeviceAuthToken(file, deviceId, role) ==
    IF ~file.exists \/ file.deviceId # deviceId THEN file
    ELSE LET key == normalizeRole(role) IN
         IF key \notin DOMAIN file.tokens THEN file
         ELSE [file EXCEPT !.tokens = MapDel(file.tokens, key)]

----------------------------------------------------------------------------
\* deviceIdentity.ts

\* Ed25519 key pairs, named by their public key; a PEM text that is not a key
KeyPairs == {"K1", "K2", "K3"}
BadPem == "not a key"
privateKeyOf(k) == CASE k = "K1" -> "k1" [] k = "K2" -> "k2" [] OTHER -> "k3"

\* sha256 of the raw public key, hex: one value per key
fingerprintPublicKey(publicKeyPem) ==
    CASE publicKeyPem = "K1" -> DeviceId [] publicKeyPem = "K2" -> OtherDeviceId [] OTHER -> "dev3"

\* generateIdentity(), the key pair that generateKeyPairSync returns being k
generateIdentity(k) ==
    [deviceId |-> fingerprintPublicKey(k), publicKeyPem |-> k, privateKeyPem |-> privateKeyOf(k)]

\* device.json: form is "missing", "unreadable" (readFileSync throws), "text" (not
\* JSON), "version" (JSON that is not a version 1 record with three strings) or
\* "record"
NoIdentity == [form |-> "missing", deviceId |-> None, publicKeyPem |-> None, privateKeyPem |-> None]
Record(id) ==
    [form |-> "record", deviceId |-> id.deviceId, publicKeyPem |-> id.publicKeyPem,
     privateKeyPem |-> id.privateKeyPem]
StoredIdentity(k) == Record(generateIdentity(k))

\* what loadOrCreateDeviceIdentity does: the file it leaves and the identity it
\* returns, or the exception it throws
Returns(file, id) ==
    [file |-> file, thrown |-> FALSE, deviceId |-> id.deviceId, publicKeyPem |-> id.publicKeyPem,
     privateKeyPem |-> id.privateKeyPem]
Throws(file) ==
    [file |-> file, thrown |-> TRUE, deviceId |-> None, publicKeyPem |-> None,
     privateKeyPem |-> None]

\* lines 112-128: generate, write, return; writeFileSync throws when the path cannot
\* be written
regenerate(file, k, writable) ==
    LET id == generateIdentity(k) IN
    IF writable THEN Returns(Record(id), id) ELSE Throws(file)

\* mutant: a record whose deviceId does not match is returned as it is
loadOrCreateTrusting(file, k, writable) ==
    IF file.form # "record" \/ file.publicKeyPem = BadPem THEN regenerate(file, k, writable)
    ELSE Returns(file, file)

\* loadOrCreateDeviceIdentity(filePath): k is the key pair generateKeyPairSync would
\* return, writable whether writeFileSync succeeds.  Every exception in the try block
\* (readFileSync, JSON.parse, createPublicKey, the writeFileSync of the corrected
\* record) falls through to the regeneration.
loadOrCreateDeviceIdentity(file, k, writable) ==
    IF file.form # "record" \/ file.publicKeyPem = BadPem THEN regenerate(file, k, writable)
    ELSE LET derivedId == fingerprintPublicKey(file.publicKeyPem) IN
         IF derivedId # file.deviceId
         THEN IF writable
              THEN Returns([file EXCEPT !.deviceId = derivedId],
                           [file EXCEPT !.deviceId = derivedId])
              ELSE regenerate(file, k, writable)
         ELSE Returns(file, file)

\* Array.prototype.join(sep): the elements with sep between them
RECURSIVE Join(_, _)
Join(list, sep) ==
    IF Len(list) <= 1 THEN list ELSE <<Head(list), sep>> \o Join(Tail(list), sep)

\* mutant: the payload is always the v1 payload
buildDeviceAuthPayloadV1(ver, deviceId, clientId, clientMode, role, scopes, signedAtMs, token, nonce) ==
    <<"v1", deviceId, clientId, clientMode, role, Join(scopes, ","), signedAtMs,
      IF token = None THEN "" ELSE token>>

\* the '|'-joined string, as the sequence of its fields; ver is params.version, None
\* when it is not given; a nonce that is undefined, null or '' is falsy
buildDeviceAuthPayload(ver, deviceId, clientId, clientMode, role, scopes, signedAtMs, token, nonce) ==
    LET version == IF ver # None THEN ver
                   ELSE IF nonce # None /\ nonce # "" THEN "v2" ELSE "v1"
        tok == IF token = None THEN "" ELSE token
        base == <<version, deviceId, clientId, clientMode, role, Join(scopes, ","),
                  signedAtMs, tok>>
    IN  IF version = "v2" THEN Append(base, IF nonce = None THEN "" ELSE nonce) ELSE base

\* the signature is a function of the key and of the payload
signDevicePayload(key, payload) == [key |-> key, over |-> payload]

----------------------------------------------------------------------------
\* OpenClawGatewayConnection.ts: the handlers, as operators on the state record s.
\* s.micro is the microtask queue of the running step: the reactions of the
\* promises the step has settled.

NoRes == [seen |-> FALSE, ok |-> FALSE, payload |-> [status |-> None], msg |-> None]
NoReaction == [canFallback |-> FALSE, role |-> <<>>]
NoAuth == [present |-> FALSE, token |-> None, password |-> None]
NoHello ==
    [status |-> None, deviceToken |-> None, hasRole |-> FALSE, role |-> <<>>,
     hasTick |-> FALSE, tick |-> 0]
NoTick == [set |-> FALSE, age |-> 0]
NoSeq == [set |-> FALSE, n |-> 0]
NoConnect ==
    [id |-> <<"c", 0>>, role |-> <<>>, scopes |-> <<>>, client |-> [id |-> None, mode |-> None],
     auth |-> NoAuth,
     device |-> [id |-> None, signature |-> [key |-> None, over |-> <<>>], nonce |-> None]]
NoWire ==
    [frames |-> 0, last |-> NoConnect, authFailed |-> FALSE, fellBack |-> FALSE, closeCode |-> 0,
     seqSeen |-> FALSE]

\* randomUUID(): an id that no request outstanding or still held by a caller carries
FreshId(s, kind) ==
    LET used == DOMAIN s.futures \cup DOMAIN s.pending
        n == CHOOSE i \in 1..(Cardinality(used) + 1) :
                 /\ <<kind, i>> \notin used
                 /\ \A j \in 1..(i - 1) : <<kind, j>> \in used
    IN  <<kind, n>>

Call(s, cb, arg) == [s EXCEPT !.calls = Append(@, <<cb, arg>>)]

\* resolve(value) or reject(err) of the promise of request id: a promise settles once,
\* and settling it queues its reaction
Settle(s, id, st, val) ==
    IF id \notin DOMAIN s.futures THEN s
    ELSE LET f == s.futures[id] IN
         IF f.state # "pending" THEN [s EXCEPT !.futures[id].settles = 2]
         ELSE [s EXCEPT !.futures[id] = [f EXCEPT !.state = st, !.value = val, !.settles = 1],
                        !.micro = IF f.method = "connect"
                                  THEN Append(@, [kind |-> st, id |-> id, arg |-> val])
                                  ELSE @]

\* this.ws?.close(code): OPEN -> CLOSING with that code; a CONNECTING socket is
\* aborted; a socket that is closing already keeps its code
wsClose(s, code) ==
    IF s.ws = 0 THEN s
    ELSE [s EXCEPT !.sock[s.ws] = CASE @ = "connecting" -> "aborted"
                                    [] @ = "open" -> "closing"
                                    [] OTHER -> @,
                   !.wire[s.ws].closeCode = IF s.sock[s.ws] \in {"connecting", "open"}
                                            THEN code ELSE @]

KindOrd(k) == IF k = "a" THEN 0 ELSE 1
IdLeq(x, y) == KindOrd(x[1]) < KindOrd(y[1]) \/ (x[1] = y[1] /\ x[2] <= y[2])

\* for (const [, p] of this.pending) p.reject(err)
RejectAll(s, err) ==
    LET ids == DOMAIN s.pending
        F[S \in SUBSET ids] ==
            IF S = {} THEN s
            ELSE LET id == CHOOSE x \in S : \A y \in S : IdLeq(y, x)
                 IN  Settle(F[S \ {id}], id, "rejected", err)
    IN  F[ids]

\* mutant: the map is not cleared
flushPendingErrorsKeep(s, err) == RejectAll(s, err)

flushPendingErrors(s, err) == [RejectAll(s, err) EXCEPT !.pending = EmptyMap]

\* ws.send(JSON.stringify(frame))
wsSend(s, method, params) ==
    LET s1 == Call(s, "ws.send", method) IN
    IF method = "connect"
    THEN [s1 EXCEPT !.wire[s.ws] = [@ EXCEPT !.frames = Min(@ + 1, 2), !.last = params,
                                                !.fellBack = s.hist.expectShared],
                    !.hist.expectShared = FALSE]
    ELSE s1

\* mutant: only the presence of a transport is tested, not its readyState
requestNoState(s, id, method, params, expectFinal, reaction) ==
    LET fut == [method |-> method, expectFinal |-> expectFinal, state |-> "pending",
                value |-> None, settles |-> 0, first |-> NoRes, acked |-> FALSE,
                reaction |-> reaction]
        s1 == [s EXCEPT !.futures = MapPut(@, id, fut)]
    IN  IF s.ws = 0
        THEN Settle(s1, id, "rejected", "Gateway not connected")
        ELSE wsSend([s1 EXCEPT !.pending = MapPut(@, id, [expectFinal |-> expectFinal])],
                    method, params)

request(s, id, method, params, expectFinal, reaction) ==
    LET fut == [method |-> method, expectFinal |-> expectFinal, state |-> "pending",
                value |-> None, settles |-> 0, first |-> NoRes, acked |-> FALSE,
                reaction |-> reaction]
        s1 == [s EXCEPT !.futures = MapPut(@, id, fut)]
    IN  IF s.ws = 0 \/ s.sock[s.ws] # "open"
        THEN Settle(s1, id, "rejected", "Gateway not connected")
        ELSE wsSend([s1 EXCEPT !.pending = MapPut(@, id, [expectFinal |-> expectFinal])],
                    method, params)

\* mutant: the shared token first
pickAuthTokenSharedFirst(stored, optToken) ==
    IF optToken # None THEN optToken ELSE IF stored.found THEN stored.token ELSE optToken

\* const authToken = storedToken ?? this.opts.token ?? undefined
pickAuthToken(stored, optToken) == IF stored.found THEN stored.token ELSE optToken

\* mutant: the payload signed covers the shared token, whatever token is sent
sendConnectSignShared(s) ==
    LET s1 == [s EXCEPT !.connectSent = TRUE, !.connectTimer = FALSE]
        role == s.opts.role
        scopes == Scopes
        nonce == s.connectNonce
        stored == loadDeviceAuthToken(s.store, DeviceId, role)
        authToken == pickAuthToken(stored, s.opts.token)
        canFallbackToShared == stored.found /\ s.opts.token # None
        hasAuth == authToken # None \/ s.opts.password # None
        auth == IF hasAuth
                THEN [present |-> TRUE, token |-> authToken, password |-> s.opts.password]
                ELSE NoAuth
        payload == buildDeviceAuthPayload(None, DeviceId, ClientId, ClientMode, role, scopes,
                                          SignedAt, s.opts.token, nonce)
        device == [id |-> DeviceId, signature |-> signDevicePayload(DeviceId, payload),
                   nonce |-> nonce]
        id == FreshId(s, "c")
        params == [id |-> id, role |-> role, scopes |-> scopes,
                   client |-> [id |-> ClientId, mode |-> ClientMode],
                   auth |-> auth, device |-> device]
    IN  request(s1, id, "connect", params, FALSE,
                [canFallback |-> canFallbackToShared, role |-> role])

sendConnectUnlatched(s) ==
    LET s1 == [s EXCEPT !.connectSent = TRUE, !.connectTimer = FALSE]
        role == s.opts.role
        scopes == Scopes
        nonce == s.connectNonce
        stored == loadDeviceAuthToken(s.store, DeviceId, role)
        authToken == pickAuthToken(stored, s.opts.token)
        canFallbackToShared == stored.found /\ s.opts.token # None
        hasAuth == authToken # None \/ s.opts.password # None
        auth == IF hasAuth
                THEN [present |-> TRUE, token |-> authToken, password |-> s.opts.password]
                ELSE NoAuth
        payload == buildDeviceAuthPayload(None, DeviceId, ClientId, ClientMode, role, scopes,
                                          SignedAt, authToken, nonce)
        device == [id |-> DeviceId, signature |-> signDevicePayload(DeviceId, payload),
                   nonce |-> nonce]
        id == FreshId(s, "c")
        params == [id |-> id, role |-> role, scopes |-> scopes,
                   client |-> [id |-> ClientId, mode |-> ClientMode],
                   auth |-> auth, device |-> device]
    IN  request(s1, id, "connect", params, FALSE,
                [canFallback |-> canFallbackToShared, role |-> role])

sendConnect(s) == IF s.connectSent THEN s ELSE sendConnectUnlatched(s)

startTickWatch(s) == [s EXCEPT !.tickTimer = TRUE]

\* mutant: the attempt counter and the backoff are kept
connectThenKeep(s, id, hello) ==
    Call(startTickWatch([s EXCEPT !.isConnected = TRUE, !.helloOk = TRUE,
                                  !.lastTick = [set |-> TRUE, age |-> 0]]), "onHelloOk", "hello")

\* mutant: the device token is stored under the requested role, whatever the hello-ok names
connectThenOwnRole(s, id, hello) ==
    LET role == s.futures[id].reaction.role
        s1 == IF hello.deviceToken # None
              THEN [s EXCEPT !.store = storeDeviceAuthToken(@, DeviceId, role,
                                                            hello.deviceToken, <<>>)]
              ELSE s
        s2 == [s1 EXCEPT !.isConnected = TRUE, !.helloOk = TRUE,
                         !.backoffMs = BaseBackoffMs, !.reconnectAttempts = 0,
                         !.tickIntervalMs = IF hello.hasTick THEN hello.tick ELSE DefaultTickMs,
                         !.lastTick = [set |-> TRUE, age |-> 0]]
    IN  Call(startTickWatch(s2), "onHelloOk", "hello")

\* the .then of sendConnect
connectThen(s, id, hello) ==
    LET role == s.futures[id].reaction.role
        s1 == IF hello.deviceToken # None
              THEN [s EXCEPT !.store = storeDeviceAuthToken(@, DeviceId,
                                           IF hello.hasRole THEN hello.role ELSE role,
                                           hello.deviceToken, <<>>)]
              ELSE s
        s2 == [s1 EXCEPT !.isConnected = TRUE, !.helloOk = TRUE,
                         !.backoffMs = BaseBackoffMs, !.reconnectAttempts = 0,
                         !.tickIntervalMs = IF hello.hasTick THEN hello.tick ELSE DefaultTickMs,
                         !.lastTick = [set |-> TRUE, age |-> 0]]
    IN  Call(startTickWatch(s2), "onHelloOk", "hello")

\* mutant: the stored token is kept
connectCatchKeep(s, id, err) == wsClose(Call(s, "onConnectError", err), CloseConnectFailed)

\* mutant: the transport is left open after the error callback
connectCatchOpen(s, id, err) ==
    LET r == s.futures[id].reaction
        s1 == IF r.canFallback
              THEN [s EXCEPT !.store = clearDeviceAuthToken(@, DeviceId, r.role)]
              ELSE s
    IN  Call(s1, "onConnectError", err)

\* mutant: the stored token is cleared on every failure
connectCatchAlways(s, id, err) ==
    LET r == s.futures[id].reaction
        s1 == [s EXCEPT !.store = clearDeviceAuthToken(@, DeviceId, r.role)]
    IN  wsClose(Call(s1, "onConnectError", err), CloseConnectFailed)

\* the .catch of sendConnect
connectCatch(s, id, err) ==
    LET r == s.futures[id].reaction
        s1 == IF r.canFallback
              THEN [s EXCEPT !.store = clearDeviceAuthToken(@, DeviceId, r.role)]
              ELSE s
    IN  wsClose(Call(s1, "onConnectError", err), CloseConnectFailed)

RECURSIVE runMicrotasks(_)
runMicrotasks(s) ==
    IF s.micro = <<>> THEN s
    ELSE LET m == Head(s.micro)
             s1 == [s EXCEPT !.micro = Tail(@)]
         IN  runMicrotasks(IF m.kind = "resolved" THEN connectThen(s1, m.id, m.arg)
                           ELSE connectCatch(s1, m.id, m.arg))

\* mutant: >= for >
attemptsExhaustedEarly(attempts) == attempts >= maxReconnectAttempts

\* this.reconnectAttempts > this.maxReconnectAttempts
attemptsExhausted(attempts) == attempts > maxReconnectAttempts

\* mutant: no ceiling
nextBackoffNoCap(ms) == ms * 2

\* Math.min(this.backoffMs * 2, 30_000)
nextBackoff(ms) == Min(ms * 2, MaxBackoffMs)

\* mutant: no timeout is set
armReconnectLost(s, delay) ==
    [s EXCEPT !.hist.scheduled = Min(@ + 1, maxReconnectAttempts + 1)]

\* setTimeout(() => { this.reconnectTimer = null; this.start(); }, delay)
\* the handle is overwritten: a timeout it referred to stays pending
armReconnect(s, delay) ==
    [s EXCEPT !.reconnectTimer = delay,
              !.strayTimers = IF s.reconnectTimer # 0 THEN @ + 1 ELSE @,
              !.hist.scheduled = Min(@ + 1, maxReconnectAttempts + 1),
              !.hist.older = s.connectTimer]

\* mutant: the tick watchdog is left armed
scheduleReconnectKeepTick(s) ==
    IF s.closed THEN s
    ELSE LET s1 == [s EXCEPT !.reconnectAttempts = @ + 1] IN
         IF attemptsExhausted(s1.reconnectAttempts)
         THEN Call(s1, "onConnectError", "Max reconnect attempts (10) reached")
         ELSE LET delay == s1.backoffMs IN
              armReconnect([s1 EXCEPT !.backoffMs = nextBackoff(s1.backoffMs)], delay)

scheduleReconnect(s) ==
    IF s.closed THEN s
    ELSE LET s1 == [s EXCEPT !.reconnectAttempts = @ + 1] IN
         IF attemptsExhausted(s1.reconnectAttempts)
         THEN Call(s1, "onConnectError", "Max reconnect attempts (10) reached")
         ELSE LET delay == s1.backoffMs IN
              armReconnect([s1 EXCEPT !.tickTimer = FALSE,
                                      !.backoffMs = nextBackoff(s1.backoffMs)], delay)

\* mutant: the fallback timer is not armed
queueConnectNoTimer(s) == [s EXCEPT !.connectNonce = None, !.connectSent = FALSE]

queueConnect(s) ==
    [s EXCEPT !.connectNonce = None, !.connectSent = FALSE, !.connectTimer = TRUE,
              !.hist.older = FALSE]

FreeSlot(s) == CHOOSE k \in Socks : s.sock[k] = "free" /\ \A j \in Socks : s.sock[j] = "free" => k <= j

\* mutant: start() opens a transport after stop() too
startAlways(s) ==
    LET k == CHOOSE k \in Socks : s.sock[k] = "free" \/ \A j \in Socks : s.sock[j] # "free" IN
    [s EXCEPT !.sock[k] = "connecting", !.ws = k]

\* start(): new WebSocket(url) and its four listeners
start(s) ==
    IF s.closed THEN s
    ELSE LET k == FreeSlot(s) IN
         [s EXCEPT !.sock[k] = "connecting", !.ws = k]

\* mutant: the outstanding requests are left pending
stopKeepPending(s) ==
    [wsClose(s, 1005) EXCEPT !.closed = TRUE, !.tickTimer = FALSE, !.connectTimer = FALSE,
                             !.reconnectTimer = 0, !.ws = 0, !.isConnected = FALSE]

stop(s) ==
    LET s1 == [wsClose(s, 1005) EXCEPT !.closed = TRUE, !.tickTimer = FALSE, !.connectTimer = FALSE,
                                 !.reconnectTimer = 0]
        s2 == [s1 EXCEPT !.ws = 0, !.isConnected = FALSE]
    IN  flushPendingErrors(s2, "Gateway client stopped")

\* ws.on('open')
onOpen(s) == queueConnect(s)

\* ws.on('close')
onClose(s) ==
    LET s1 == [s EXCEPT !.ws = 0, !.isConnected = FALSE]
        s2 == flushPendingErrors(s1, "Gateway closed")
    IN  Call(scheduleReconnect(s2), "onClose", "close")

\* ws.on('error')
onError(s) ==
    LET s1 == Call(s, "console.error", "WebSocket error") IN
    IF ~s.connectSent THEN Call(s1, "onConnectError", "WebSocket error") ELSE s1

\* mutant: the connect request is sent before the nonce is kept
handleChallengeLate(s, nonce) ==
    IF nonce # None /\ nonce # "" THEN [sendConnect(s) EXCEPT !.connectNonce = nonce] ELSE s

\* handleMessage, event frame connect.challenge
handleChallenge(s, nonce) ==
    IF nonce # None /\ nonce # "" THEN sendConnect([s EXCEPT !.connectNonce = nonce]) ELSE s

\* mutant: a refused request is reported to the error callback as well
handleResAtLoud(s, res, id) ==
    IF id \notin DOMAIN s.pending THEN s
    ELSE LET p == s.pending[id] IN
         IF p.expectFinal /\ res.payload.status = "accepted" THEN s
         ELSE LET s1 == [s EXCEPT !.pending = MapDel(@, id)] IN
              IF res.ok THEN Settle(s1, id, "resolved", res.payload)
              ELSE Call(Settle(s1, id, "rejected",
                               IF res.msg = None THEN "Unknown error" ELSE res.msg),
                        "onConnectError", "request failed")

\* mutant: the first response completes the request, an 'accepted' one too
handleResAtFirst(s, res, id) ==
    IF id \notin DOMAIN s.pending THEN s
    ELSE LET s1 == [s EXCEPT !.pending = MapDel(@, id)] IN
         IF res.ok THEN Settle(s1, id, "resolved", res.payload)
         ELSE Settle(s1, id, "rejected",
                     IF res.msg = None THEN "Unknown error" ELSE res.msg)

\* the response branch of handleMessage, for the pending entry looked up under id
handleResAt(s, res, id) ==
    IF id \notin DOMAIN s.pending THEN s
    ELSE LET p == s.pending[id] IN
         IF p.expectFinal /\ res.payload.status = "accepted" THEN s
         ELSE LET s1 == [s EXCEPT !.pending = MapDel(@, id)] IN
              IF res.ok THEN Settle(s1, id, "resolved", res.payload)
              ELSE Settle(s1, id, "rejected",
                          IF res.msg = None THEN "Unknown error" ELSE res.msg)

\* mutant: the oldest pending entry is completed, whatever the frame's id
handleResOldest(s, res) ==
    IF DOMAIN s.pending = {} THEN s
    ELSE handleResAt(s, res, CHOOSE x \in DOMAIN s.pending : \A y \in DOMAIN s.pending : IdLeq(x, y))

\* handleMessage, response frame
handleRes(s, res) == handleResAt(s, res, res.id)

\* a console.warn or a call of opts.onEvent, also kept in the order it was made
Deliver(s, cb, arg) == [Call(s, cb, arg) EXCEPT !.hist.log = Append(@, <<cb, arg>>)]

\* mutant: every seq other than the successor of the last one is warned about
handleEventStrict(s, evt) ==
    LET gap == s.lastSeq.set /\ evt.seq # s.lastSeq.n + 1
        s1 == IF ~evt.hasSeq THEN s
              ELSE [(IF gap THEN Deliver(s, "console.warn", evt.seq) ELSE s)
                       EXCEPT !.lastSeq = [set |-> TRUE, n |-> evt.seq]]
        s2 == IF evt.event = "tick" THEN [s1 EXCEPT !.lastTick = [set |-> TRUE, age |-> 0]]
              ELSE s1
    IN  Deliver(s2, "onEvent", <<evt.event, evt.hasSeq, evt.seq>>)

\* handleMessage, event frame other than connect.challenge
handleEvent(s, evt) ==
    LET gap == s.lastSeq.set /\ evt.seq > s.lastSeq.n + 1
        s1 == IF ~evt.hasSeq THEN s
              ELSE [(IF gap THEN Deliver(s, "console.warn", evt.seq) ELSE s)
                       EXCEPT !.lastSeq = [set |-> TRUE, n |-> evt.seq]]
        s2 == IF evt.event = "tick" THEN [s1 EXCEPT !.lastTick = [set |-> TRUE, age |-> 0]]
              ELSE s1
    IN  Deliver(s2, "onEvent", <<evt.event, evt.hasSeq, evt.seq>>)

\* mutant: a frame that cannot be parsed, or a response to no request, ends the transport
handleMessageStrict(s, frame) ==
    CASE frame.type \in {"invalid", "null"} -> wsClose(Call(s, "console.error", "Parse error"), 1002)
      [] frame.type = "event" ->
            IF frame.event = "connect.challenge" THEN handleChallenge(s, frame.nonce)
            ELSE handleEvent(s, frame)
      [] frame.type = "res" ->
            IF frame.id \in DOMAIN s.pending THEN handleRes(s, frame) ELSE wsClose(s, 1002)
      [] OTHER -> s

\* handleMessage(raw): JSON.parse throws on text that is not JSON, reading .type of
\* null throws; both are caught and logged
handleMessage(s, frame) ==
    CASE frame.type \in {"invalid", "null"} -> Call(s, "console.error", "Parse error")
      [] frame.type = "event" ->
            IF frame.event = "connect.challenge" THEN handleChallenge(s, frame.nonce)
            ELSE handleEvent(s, frame)
      [] frame.type = "res" -> handleRes(s, frame)
      [] OTHER -> s

\* mutant: the transport is closed when the time is twice the interval, too
tickWatchEarly(s) ==
    IF s.closed THEN s
    ELSE IF ~s.lastTick.set THEN s
    ELSE IF s.lastTick.age >= s.tickIntervalMs * 2 THEN wsClose(s, CloseTickTimeout) ELSE s

\* the tick watchdog's interval callback: gap = Date.now() - this.lastTick
tickWatch(s) ==
    IF s.closed THEN s
    ELSE IF ~s.lastTick.set THEN s
    ELSE IF s.lastTick.age > s.tickIntervalMs * 2 THEN wsClose(s, CloseTickTimeout) ELSE s

----------------------------------------------------------------------------
\* The state machine.

\* a promise that has settled is dropped by its holder once the step after the
\* settling one begins; one whose id is still in the pending map is kept
Held(f, p) == [i \in {j \in DOMAIN f : f[j].state = "pending" \/ j \in DOMAIN p} |-> f[i]]

Cur ==
    [sock |-> sock, ws |-> ws, closed |-> closed, pending |-> pending,
     backoffMs |-> backoffMs, reconnectAttempts |-> reconnectAttempts,
     reconnectTimer |-> reconnectTimer, strayTimers |-> strayTimers, connectNonce |-> connectNonce,
     connectSent |-> connectSent, connectTimer |-> connectTimer, tickTimer |-> tickTimer,
     lastTick |-> lastTick, tickIntervalMs |-> tickIntervalMs, lastSeq |-> lastSeq,
     isConnected |-> isConnected, helloOk |-> helloOk,
     store |-> store, opts |-> opts, futures |-> Held(futures, pending), wire |-> wire,
     calls |-> <<>>, hist |-> [hist EXCEPT !.rx = None], micro |-> <<>>]

\* one macrotask: the handler's result, then the microtasks it queued.  A handler
\* that changes nothing and calls nothing back leaves the state as it is.
Step(s) ==
    LET n == runMicrotasks(s) IN
    IF n = Cur THEN UNCHANGED vars
    ELSE
    /\ sock' = n.sock
    /\ ws' = n.ws
    /\ closed' = n.closed
    /\ pending' = n.pending
    /\ backoffMs' = n.backoffMs
    /\ reconnectAttempts' = n.reconnectAttempts
    /\ reconnectTimer' = n.reconnectTimer
    /\ strayTimers' = n.strayTimers
    /\ connectNonce' = n.connectNonce
    /\ connectSent' = n.connectSent
    /\ connectTimer' = n.connectTimer
    /\ tickTimer' = n.tickTimer
    /\ lastTick' = IF n.tickTimer THEN n.lastTick ELSE [n.lastTick EXCEPT !.age = 0]
    /\ tickIntervalMs' = n.tickIntervalMs
    /\ lastSeq' = n.lastSeq
    /\ isConnected' = n.isConnected
    /\ helloOk' = n.helloOk
    /\ store' = n.store
    /\ opts' = n.opts
    /\ futures' = n.futures
    /\ wire' = n.wire
    /\ calls' = n.calls
    /\ hist' = n.hist
    /\ identity' = identity

OwnStore ==
    [exists |-> TRUE, form |-> "store", deviceId |-> DeviceId,
     tokens |-> MapPut(EmptyMap, RoleO, [token |-> "D", role |-> RoleO, scopes |-> <<>>])]
ForeignStore ==
    [exists |-> TRUE, form |-> "store", deviceId |-> OtherDeviceId,
     tokens |-> MapPut(EmptyMap, RoleO, [token |-> "F", role |-> RoleO, scopes |-> <<>>])]
\* the token file found at the first handshake
StoreInits == {NoStore, OwnStore, ForeignStore}
\* the options the caller constructs the connection with
OptsInits ==
    {[token |-> None, password |-> None, role |-> RoleO],
     [token |-> "S", password |-> None, role |-> RoleO],
     [token |-> "S", password |-> None, role |-> RolePadded],
     [token |-> None, password |-> "P", role |-> RolePadded]}

HelloPayloads ==
    {[NoHello EXCEPT !.deviceToken = tk, !.hasRole = r[1], !.role = r[2]] :
        tk \in {"T1"}, r \in {<<FALSE, <<>> >>, <<TRUE, RoleO>>, <<TRUE, RoleV>>}}
    \cup {NoHello}
AppPayloads ==
    {[status |-> "final", data |-> "p1"], [status |-> "final", data |-> "p2"],
     [status |-> "accepted", data |-> "ack"]}
ErrMsgs == {None, "e1"}

\* the response frames the gateway may send in the current state
Responses ==
    LET ids == DOMAIN futures \cup DOMAIN pending \cup {<<"a", 0>>} IN
    {[id |-> i, ok |-> TRUE, payload |-> p, msg |-> None] :
        i \in {j \in ids : j[1] = "c"}, p \in HelloPayloads}
    \cup {[id |-> i, ok |-> TRUE, payload |-> p, msg |-> None] :
        i \in {j \in ids : j[1] = "a"}, p \in AppPayloads}
    \cup {[id |-> i, ok |-> FALSE, payload |-> [status |-> None], msg |-> m] :
        i \in ids, m \in ErrMsgs}

\* the record of what the gateway sent on transport k: the first terminal response
\* to an outstanding request, and an 'accepted' one before it; a hello-ok ends the run of closures; a refusal of a
\* connect request that used a stored token beside a shared one
LogRes(s, k, res) ==
    IF res.id \in DOMAIN s.futures
       /\ s.futures[res.id].state = "pending"
       /\ ~s.futures[res.id].first.seen
       /\ ~(s.futures[res.id].expectFinal /\ res.payload.status = "accepted")
    THEN LET f == s.futures[res.id]
             s1 == [s EXCEPT !.futures[res.id].first =
                        [seen |-> TRUE, ok |-> res.ok, payload |-> res.payload, msg |-> res.msg]]
         IN  IF f.method # "connect" THEN s1
             ELSE IF res.ok THEN [s1 EXCEPT !.hist.closures = 0, !.hist.scheduled = 0]
             ELSE IF f.reaction.canFallback
                  THEN [s1 EXCEPT !.wire[k].authFailed = TRUE, !.hist.expectShared = TRUE]
                  ELSE s1
    ELSE IF res.id \in DOMAIN s.futures
            /\ s.futures[res.id].state = "pending"
            /\ s.futures[res.id].expectFinal /\ res.payload.status = "accepted"
         THEN [s EXCEPT !.futures[res.id].acked = TRUE]
         ELSE s

\* the record of a frame handed to handleMessage: its type, and for an event frame
\* other than connect.challenge its place in the order of arrival and whether
\* transport k has delivered an event with a seq
LogFrame(s, k, frame) ==
    LET s1 == [s EXCEPT !.hist.rx = frame.type] IN
    CASE frame.type = "res" -> LogRes(s1, k, frame)
      [] frame.type = "event" /\ frame.event # "connect.challenge" ->
            [s1 EXCEPT !.hist.arrived = Append(@, <<frame.event, frame.hasSeq, frame.seq>>),
                       !.wire[k].seqSeen = @ \/ frame.hasSeq]
      [] OTHER -> s1

\* the record of a transport's end: its slot and what was written to it are gone
LogClose(s, k) ==
    [s EXCEPT !.sock[k] = "free", !.wire[k] = NoWire,
              !.hist.closures = Min(@ + 1, maxReconnectAttempts + MaxExtra + 1)]

CanOpen(cap) == reconnectAttempts <= cap /\ \E k \in Socks : sock[k] = "free"

Init ==
    /\ sock = [k \in Socks |-> "free"]
    /\ ws = 0
    /\ closed = FALSE
    /\ pending = EmptyMap
    /\ backoffMs = BaseBackoffMs
    /\ reconnectAttempts = 0
    /\ reconnectTimer = 0
    /\ strayTimers = 0
    /\ connectNonce = None
    /\ connectSent = FALSE
    /\ connectTimer = FALSE
    /\ tickTimer = FALSE
    /\ lastTick = NoTick
    /\ tickIntervalMs = DefaultTickMs
    /\ lastSeq = NoSeq
    /\ isConnected = FALSE
    /\ helloOk = FALSE
    /\ store \in StoreInits
    /\ identity = StoredIdentity("K1")
    /\ opts \in OptsInits
    /\ futures = EmptyMap
    /\ wire = [k \in Socks |-> NoWire]
    /\ calls = <<>>
    /\ hist = [closures |-> 0, scheduled |-> 0, expectShared |-> FALSE, older |-> FALSE,
               rx |-> None, arrived |-> <<>>, log |-> <<>>]

\* the caller calls start()
StartUpTo(cap) ==
    /\ closed \/ CanOpen(cap)
    /\ Step(start(Cur))

StartAny == StartUpTo(MaxFreeFailures)

\* the state Idle of the connection: no transport and no reconnect pending
Idle == ws = 0 /\ reconnectTimer = 0

\* the caller calls start() on an idle connection only
StartIdleUpTo(cap) == Idle /\ StartUpTo(cap)

Start == StartIdleUpTo(MaxFailures)

Stop == Step(stop(Cur))

RequestUpTo(max, expectFinal) ==
    /\ FreshId(Cur, "a")[2] <= max
    /\ Step(request(Cur, FreshId(Cur, "a"), "app", None, expectFinal, NoReaction))

Request(expectFinal) == RequestUpTo(MaxRequests, expectFinal)

SockOpen(k) ==
    /\ sock[k] = "connecting"
    /\ Step(onOpen([Cur EXCEPT !.sock[k] = "open"]))

SockClose(k) ==
    /\ sock[k] # "free"
    /\ closed \/ reconnectTimer = 0 \/ strayTimers < MaxStray
    /\ Step(onClose(LogClose(Cur, k)))

SockError(k) ==
    /\ sock[k] # "free"
    /\ Step(onError(Cur))

Challenge(k, nonce) ==
    /\ sock[k] \in {"open", "closing"}
    /\ Step(handleChallenge(Cur, nonce))

Response(k, res) ==
    /\ sock[k] \in {"open", "closing"}
    /\ Step(handleRes(LogRes(Cur, k, res), res))

ConnectTimerFires ==
    /\ connectTimer
    /\ Step(sendConnect(Cur))

\* the reconnect timer (at least 1000 ms) expires after a connect fallback timer
\* (750 ms) that was armed before it
ReconnectTimerFiresUpTo(cap) ==
    /\ reconnectTimer # 0
    /\ ~(connectTimer /\ hist.older)
    /\ CanOpen(cap)
    /\ Step(start([Cur EXCEPT !.reconnectTimer = 0]))

ReconnectTimerFires == ReconnectTimerFiresUpTo(MaxFailures)

\* a reconnect timeout whose handle was overwritten expires: it clears the handle
\* of the timeout armed after it, which stays pending
StrayTimerFires ==
    /\ strayTimers > 0
    /\ closed \/ CanOpen(MaxFreeFailures)
    /\ Step(start([Cur EXCEPT !.reconnectTimer = 0,
                               !.strayTimers = IF reconnectTimer # 0 THEN @ ELSE @ - 1]))

\* the event frames the gateway sends
EventFrames ==
    {[type |-> "event", event |-> "chat", hasSeq |-> TRUE, seq |-> n] : n \in {1, 2, 5}}
    \cup {[type |-> "event", event |-> e, hasSeq |-> FALSE, seq |-> 0] : e \in {"chat", "tick"}}
\* frames that are not JSON, the JSON null, a frame of a type the client does not
\* know, a response to no pending request
StrayFrames ==
    {[type |-> x] : x \in {"invalid", "null", "hello"}}
    \cup {[type |-> "res", id |-> <<"a", 0>>, ok |-> o, payload |-> [status |-> None], msg |-> None] :
             o \in BOOLEAN}

Frame(k, frame) ==
    /\ sock[k] \in {"open", "closing"}
    /\ frame \in EventFrames => Len(hist.arrived) < MaxEvents
    /\ Step(handleMessage(LogFrame(Cur, k, frame), frame))

TickTimerFires ==
    /\ tickTimer
    /\ Step(tickWatch(Cur))

\* d ms pass; the time since the liveness mark is read by the watchdog only, and the
\* watchdog is armed right after the mark is set, so it is tracked while the watchdog
\* is armed
TimePasses(d) ==
    /\ tickTimer
    /\ lastTick.set
    /\ lastTick.age + d <= MaxAgeMs
    /\ Step([Cur EXCEPT !.lastTick.age = @ + d])

Next ==
    \/ Start
    \/ Stop
    \/ \E f \in BOOLEAN : Request(f)
    \/ \E k \in Socks : SockOpen(k)
    \/ \E k \in Socks : SockClose(k)
    \/ \E k \in Socks : SockError(k)
    \/ \E k \in Socks, n \in ChallengeNonces : Challenge(k, n)
    \/ \E k \in Socks, r \in Responses : Response(k, r)
    \/ ConnectTimerFires
    \/ ReconnectTimerFires
    \/ TickTimerFires
    \/ TimePasses(MaxAgeMs)

Spec == Init /\ [][Next]_vars

\* a connection with a stored device token and a shared token
InitOne ==
    /\ Init
    /\ store = OwnStore
    /\ opts = [token |-> "S", password |-> None, role |-> RoleO]

\* several application requests outstanding at the same time
RequestMux(expectFinal) == RequestUpTo(MaxMuxRequests, expectFinal)

NextMux ==
    \/ Start
    \/ Stop
    \/ \E f \in BOOLEAN : RequestMux(f)
    \/ \E k \in Socks : SockOpen(k)
    \/ \E k \in Socks : SockClose(k)
    \/ \E k \in Socks : SockError(k)
    \/ \E k \in Socks, n \in ChallengeNonces : Challenge(k, n)
    \/ \E k \in Socks, r \in Responses : Response(k, r)
    \/ ConnectTimerFires
    \/ ReconnectTimerFires
    \/ TickTimerFires
    \/ TimePasses(MaxAgeMs)

SpecMux == InitOne /\ [][NextMux]_vars

\* runs of failed attempts up to maxReconnectAttempts and beyond
StartLong == StartIdleUpTo(maxReconnectAttempts + MaxExtra)
ReconnectTimerFiresLong == ReconnectTimerFiresUpTo(maxReconnectAttempts + MaxExtra)

NextBackoff ==
    \/ StartLong
    \/ Stop
    \/ \E f \in BOOLEAN : Request(f)
    \/ \E k \in Socks : SockOpen(k)
    \/ \E k \in Socks : SockClose(k)
    \/ \E k \in Socks : SockError(k)
    \/ \E k \in Socks, n \in ChallengeNonces : Challenge(k, n)
    \/ \E k \in Socks, r \in Responses : Response(k, r)
    \/ ConnectTimerFires
    \/ ReconnectTimerFiresLong
    \/ TickTimerFires
    \/ TimePasses(MaxAgeMs)

SpecBackoff == InitOne /\ [][NextBackoff]_vars

\* a connection with a stored device token and no shared token, with and without a
\* password
InitStoredOnly ==
    /\ Init
    /\ store = OwnStore
    /\ opts.token = None

SpecStoredOnly == InitStoredOnly /\ [][NextBackoff]_vars

\* start() called in any state: a transport replaced while it is live, reconnect
\* timeouts left behind
NextFree ==
    \/ StartAny
    \/ Stop
    \/ \E k \in Socks : SockOpen(k)
    \/ \E k \in Socks : SockClose(k)
    \/ \E k \in Socks : Challenge(k, "n1")
    \/ \E k \in Socks, r \in Responses : Response(k, r)
    \/ ConnectTimerFires
    \/ ReconnectTimerFiresUpTo(MaxFreeFailures)
    \/ StrayTimerFires

SpecFree == InitOne /\ [][NextFree]_vars

\* The connection in use: events, frames to discard, the tick watchdog with the time
\* since the liveness mark in steps of 30 s, a hello-ok with and without a tick interval
EventHellos == {NoHello, [NoHello EXCEPT !.hasTick = TRUE, !.tick = 15000]}
EventResponses ==
    {[id |-> i, ok |-> TRUE, payload |-> p, msg |-> None] :
        i \in {j \in DOMAIN pending : j[1] = "c"}, p \in EventHellos}

NextEvents ==
    \/ Start
    \/ Stop
    \/ Request(FALSE)
    \/ \E k \in Socks : SockOpen(k)
    \/ \E k \in Socks : SockClose(k)
    \/ \E k \in Socks, r \in EventResponses : Response(k, r)
    \/ \E k \in Socks, f \in EventFrames \cup StrayFrames : Frame(k, f)
    \/ ConnectTimerFires
    \/ ReconnectTimerFires
    \/ TickTimerFires
    \/ TimePasses(DefaultTickMs)

SpecEvents == InitOne /\ [][NextEvents]_vars

\* Event frames of every name in every state of the connection: connect.challenge
\* frames with and without a nonce beside the others
ChallengeFrames ==
    {[type |-> "event", event |-> "connect.challenge", nonce |-> n, hasSeq |-> FALSE, seq |-> 0] :
        n \in {"n1", None}}

NextDispatch ==
    \/ Start
    \/ Stop
    \/ \E k \in Socks : SockOpen(k)
    \/ \E k \in Socks : SockClose(k)
    \/ \E k \in Socks, r \in EventResponses : Response(k, r)
    \/ \E k \in Socks, f \in EventFrames \cup ChallengeFrames : Frame(k, f)
    \/ ConnectTimerFires
    \/ ReconnectTimerFires

SpecDispatch == InitOne /\ [][NextDispatch]_vars

\* The handshake alone, with the fallback timer (setTimeout, 750 ms) bound to fire.
NextFallback ==
    \/ Start
    \/ Stop
    \/ \E k \in Socks : SockOpen(k)
    \/ \E k \in Socks : SockClose(k)
    \/ \E k \in Socks, nonce \in ChallengeNonces : Challenge(k, nonce)
    \/ \E k \in Socks, res \in Responses : Response(k, res)
    \/ ConnectTimerFires
    \/ ReconnectTimerFires

SpecFallback == InitOne /\ [][NextFallback]_vars /\ WF_vars(ConnectTimerFires)

\* Closures and reconnects alone, with the two timeouts (setTimeout) bound to fire.
NextReconnect ==
    \/ StartLong
    \/ Stop
    \/ \E k \in Socks : SockOpen(k)
    \/ \E k \in Socks : SockClose(k)
    \/ ConnectTimerFires
    \/ ReconnectTimerFiresLong

SpecReconnect ==
    InitOne /\ [][NextReconnect]_vars /\ WF_vars(ConnectTimerFires) /\ WF_vars(ReconnectTimerFiresLong)

\* The token store alone: store, load and clear called with any device, role, token
\* and scopes, on any file.
StoreDevices == {DeviceId, OtherDeviceId}
StoreRoles == {RoleO, RoleV, RolePadded}
StoreTokens == {"T1", "T2"}
ScopeLists == {<<>>, << <<"b">>, <<"a">> >>, << <<" ", "a">>, <<"a">>, <<" ">> >>}
MalformedStore == [OwnStore EXCEPT !.tokens[RoleO].token = NotAString]
StoreFiles ==
    {NoStore, OwnStore, ForeignStore, MalformedStore}
    \cup {[NoStore EXCEPT !.form = x] : x \in {"unreadable", "text", "version", "notable"}}

connVars == <<sock, ws, closed, pending, backoffMs, reconnectAttempts, reconnectTimer,
              strayTimers, connectNonce, connectSent, connectTimer, tickTimer, lastTick,
              tickIntervalMs, lastSeq, isConnected, helloOk, identity, opts, futures, wire,
              hist>>

\* a connection that was constructed and not started; the file is any of StoreFiles
InitStore ==
    /\ sock = [k \in Socks |-> "free"]
    /\ ws = 0
    /\ closed = FALSE
    /\ pending = EmptyMap
    /\ backoffMs = BaseBackoffMs
    /\ reconnectAttempts = 0
    /\ reconnectTimer = 0
    /\ strayTimers = 0
    /\ connectNonce = None
    /\ connectSent = FALSE
    /\ connectTimer = FALSE
    /\ tickTimer = FALSE
    /\ lastTick = NoTick
    /\ tickIntervalMs = DefaultTickMs
    /\ lastSeq = NoSeq
    /\ isConnected = FALSE
    /\ helloOk = FALSE
    /\ store \in StoreFiles
    /\ identity = StoredIdentity("K1")
    /\ opts = [token |-> None, password |-> None, role |-> RoleO]
    /\ futures = EmptyMap
    /\ wire = [k \in Socks |-> NoWire]
    /\ calls = <<>>
    /\ hist = [closures |-> 0, scheduled |-> 0, expectShared |-> FALSE, older |-> FALSE,
               rx |-> None, arrived |-> <<>>, log |-> <<>>]

\* storeDeviceAuthToken({deviceId, role, token, scopes}): the file is rewritten and the
\* entry returned
StoreToken(d, r, tk, sc) ==
    /\ store' = storeDeviceAuthToken(store, d, r, tk, sc)
    /\ calls' = << <<"store", [deviceId |-> d, role |-> r, token |-> tk, scopes |-> sc],
                    store'.tokens[normalizeRole(r)]>> >>
    /\ UNCHANGED connVars

\* loadDeviceAuthToken({deviceId, role}): the file is read only
LoadToken(d, r) ==
    /\ calls' = << <<"load", [deviceId |-> d, role |-> r], loadDeviceAuthToken(store, d, r)>> >>
    /\ UNCHANGED <<store, connVars>>

\* clearDeviceAuthToken({deviceId, role}); the file as it was is kept with the call
ClearToken(d, r) ==
    /\ store' = clearDeviceAuthToken(store, d, r)
    /\ calls' = << <<"clear", [deviceId |-> d, role |-> r], None, store>> >>
    /\ UNCHANGED connVars

NextStore ==
    \/ \E d \in StoreDevices, r \in StoreRoles, tk \in StoreTokens, sc \in ScopeLists :
          StoreToken(d, r, tk, sc)
    \/ \E d \in StoreDevices, r \in StoreRoles : LoadToken(d, r)
    \/ \E d \in StoreDevices, r \in StoreRoles : ClearToken(d, r)

SpecStore == InitStore /\ [][NextStore]_vars

\* The identity file alone: loadOrCreateDeviceIdentity called on any file, and the
\* file changed by something else between calls.
IdentityFiles ==
    {[NoIdentity EXCEPT !.form = x] : x \in {"missing", "unreadable", "text", "version"}}
    \cup {[form |-> "record", deviceId |-> d, publicKeyPem |-> pk, privateKeyPem |-> privateKeyOf(sk)] :
             d \in {DeviceId, OtherDeviceId, "stale"}, pk \in KeyPairs \cup {BadPem}, sk \in KeyPairs}

storeVars == <<sock, ws, closed, pending, backoffMs, reconnectAttempts, reconnectTimer,
               strayTimers, connectNonce, connectSent, connectTimer, tickTimer, lastTick,
               tickIntervalMs, lastSeq, isConnected, helloOk, store, opts, futures, wire, hist>>

InitIdentity ==
    /\ InitStore
    /\ store = NoStore

LoadOrCreate(k, writable) ==
    LET r == loadOrCreateDeviceIdentity(identity, k, writable) IN
    /\ identity' = r.file
    /\ calls' = << <<"loadOrCreate", k, [r EXCEPT !.file = None], identity>> >>
    /\ UNCHANGED storeVars

\* the file is replaced, removed or damaged by something else
FileChanges(f) ==
    /\ identity' = f
    /\ calls' = <<>>
    /\ UNCHANGED storeVars

NextIdentity ==
    \/ \E k \in KeyPairs, w \in BOOLEAN : LoadOrCreate(k, w)
    \/ \E f \in IdentityFiles : FileChanges(f)

SpecIdentity == InitIdentity /\ [][NextIdentity]_vars

\* The signed payload alone: buildDeviceAuthPayload called with any version, role,
\* scopes, token and nonce.
\* scopes are strings: sequences of characters
ScopeOrders == {<<>>, << <<"a">> >>, << <<"a">>, <<"b">> >>, << <<"b">>, <<"a">> >>}
PayloadInputs ==
    [version : {None, "v1", "v2"}, role : {RoleO, RoleV}, scopes : ScopeOrders,
     token : {None, "S"}, nonce : {None, "", "n1"}]

BuildPayload(in) ==
    /\ calls' = << <<"buildDeviceAuthPayload", in,
                    buildDeviceAuthPayload(in.version, DeviceId, ClientId, ClientMode, in.role,
                                           in.scopes, SignedAt, in.token, in.nonce)>> >>
    /\ UNCHANGED <<store, connVars>>

NextPayload == \E in \in PayloadInputs : BuildPayload(in)

SpecPayload == InitIdentity /\ [][NextPayload]_vars

----------------------------------------------------------------------------
\* The claims.

LocalErrors == {"Gateway closed", "Gateway client stopped", "Gateway not connected"}
Stored(file) == loadDeviceAuthToken(file, DeviceId, opts.role)
ConnectFrameSent(k) == wire'[k].frames > wire[k].frames
Over(frame) == frame.device.signature.over
SignedV1(frame) == Len(Over(frame)) = 8 /\ Over(frame)[1] = "v1"
SignedV2(frame, n) == Len(Over(frame)) = 9 /\ Over(frame)[1] = "v2" /\ Over(frame)[9] = n
CalledBack(cb, arg) == \E i \in 1..Len(calls) : calls[i] = <<cb, arg>>

\* C1: a promise of request() settles with the payload or the error of the first
\* terminal response that carried its own id, whatever else is outstanding and in
\* whatever order the responses arrive.
C1_OwnResponse ==
    \A id \in DOMAIN futures :
        LET f == futures[id] IN
        /\ f.state = "resolved" => f.first.seen /\ f.first.ok /\ f.value = f.first.payload
        /\ (f.state = "rejected" /\ f.value \notin LocalErrors) =>
               /\ f.first.seen
               /\ ~f.first.ok
               /\ f.value = (IF f.first.msg = None THEN "Unknown error" ELSE f.first.msg)

\* the second of two outstanding requests is answered first, with its own payload
C1_Witness ==
    /\ {<<"a", 1>>, <<"a", 2>>} \subseteq DOMAIN futures
    /\ futures[<<"a", 1>>].state = "pending"
    /\ futures[<<"a", 2>>].state = "resolved"
    /\ futures[<<"a", 2>>].value.data = "p2"

\* C2: a promise of request() is settled at most once, and once it is settled the
\* pending map holds no entry under its id (so a later frame with that id finds none).
C2_SettledOnce ==
    \A id \in DOMAIN futures \cup DOMAIN pending :
        /\ id \in DOMAIN futures
        /\ futures[id].settles <= 1
        /\ futures[id].state # "pending" => id \notin DOMAIN pending

C2_Witness ==
    \E id \in DOMAIN futures :
        /\ futures[id].state = "resolved"
        /\ futures[id].settles = 1
        /\ id \notin DOMAIN pending

\* C3: no transport is written more than one connect frame between its open and
\* its close.
C3_OneConnectPerOpen == \A k \in Socks : wire[k].frames <= 1

\* a challenge with a nonce arrives on the open transport before the fallback timer fired
ChallengeFirst ==
    /\ ws # 0
    /\ sock[ws] = "open"
    /\ wire[ws].frames = 0
    /\ connectTimer
    /\ connectNonce' \in Nonces \ {connectNonce}

\* the response ok to the outstanding connect request id arrives
HelloArrives(id) ==
    /\ id \in DOMAIN futures /\ id \in DOMAIN futures'
    /\ id[1] = "c"
    /\ futures[id].state = "pending"
    /\ futures'[id].state = "resolved"

C4_Nonce ==
    ChallengeFirst =>
        /\ wire'[ws].frames = 1
        /\ wire'[ws].last.device.nonce = connectNonce'
        /\ SignedV2(wire'[ws].last, connectNonce')

AwaitingChallenge == ws # 0 /\ sock[ws] = "open" /\ wire[ws].frames = 0
FallbackDecided ==
    \/ ws = 0
    \/ sock[ws] # "open"
    \/ connectNonce # None
    \/ /\ wire[ws].frames = 1
       /\ wire[ws].last.device.nonce = None
       /\ SignedV1(wire[ws].last)

\* C5: a transport that is open and has been sent no connect frame either closes, or
\* receives a challenge with a nonce, or is sent a connect frame without nonce signed
\* over the v1 payload.
C5_FallbackConnect == AwaitingChallenge ~> FallbackDecided

C5_Witness ==
    /\ ws # 0
    /\ sock[ws] = "open"
    /\ connectNonce = None
    /\ wire[ws].frames = 1
    /\ wire[ws].last.device.nonce = None
    /\ SignedV1(wire[ws].last)

\* C6: the auth.token of a connect frame is the token stored for (deviceId, trimmed
\* requested role) when the file holds one, and the shared token otherwise.
C6_TokenPrecedence ==
    [][\A k \in Socks :
         ConnectFrameSent(k) =>
            LET key == normalizeRole(opts.role)
                has == store.exists /\ store.deviceId = DeviceId /\ key \in DOMAIN store.tokens
            IN  wire'[k].last.auth.token = IF has THEN store.tokens[key].token ELSE opts.token
      ]_vars

C6_Witness ==
    \E k \in Socks :
        /\ wire[k].frames = 1
        /\ opts.token = "S"
        /\ wire[k].last.auth.token = "D"

\* the connect request of transport k, sent with a stored token beside a shared one,
\* is answered with a response that is not ok
AuthRefused(k) == ~wire[k].authFailed /\ wire'[k].authFailed
ClosesAfterRefusal(k) == wire[k].authFailed /\ sock'[k] = "free" /\ ~closed

C7_Cleared ==
    \A k \in Socks : AuthRefused(k) => ~Stored(store').found /\ sock'[k] = "closing"
C7_NextShared ==
    \A k \in Socks : ConnectFrameSent(k) /\ hist.expectShared =>
        wire'[k].fellBack /\ wire'[k].last.auth.token = opts.token

\* C7 as stated: after the refusal the stored token is cleared and the transport
\* closed; at its close a reconnect is scheduled; the next connect frame carries the
\* shared token.
C7_Original ==
    [][/\ C7_Cleared
       /\ \A k \in Socks : ClosesAfterRefusal(k) => reconnectTimer' # 0
       /\ C7_NextShared]_vars

\* C7, amended: the reconnect is scheduled when stop() has not been called and fewer
\* than 10 attempts have failed in a row.
C7_AuthFallback ==
    [][/\ C7_Cleared
       /\ \A k \in Socks :
            ClosesAfterRefusal(k) /\ reconnectAttempts < 10 => reconnectTimer' # 0
       /\ C7_NextShared]_vars

C7_Witness ==
    \E k \in Socks :
        /\ wire[k].fellBack
        /\ wire[k].last.auth.token = "S"
        /\ ~Stored(store).found

\* C8: a stored token is removed only in a step in which a connect request that
\* used it is answered with a response that is not ok.
C8_OnlyRefusalClears ==
    [][(Stored(store).found /\ ~Stored(store').found) => \E k \in Socks : AuthRefused(k)]_vars

\* a transport closes while stop() has not been called: the k-th closure since the
\* last hello-ok, k = hist.closures'
ClosureCounted == hist.closures' = hist.closures + 1 /\ ~closed

\* C9: backoffMs stays within 1000..30000, and the reconnect timer armed at the k-th
\* closure in a row (k <= 10) is armed with min(1000 * 2^(k-1), 30000) ms.
C9_Backoff ==
    /\ [](backoffMs >= 1000 /\ backoffMs <= 30000)
    /\ [][(ClosureCounted /\ hist.closures' <= 10) =>
            reconnectTimer' = Min(1000 * 2 ^ (hist.closures' - 1), 30000)]_vars

C9_Witness == hist.closures = 10 /\ reconnectTimer = 30000 /\ backoffMs = 30000

\* C10: each of the first 10 closures in a row arms a reconnect timer; the 11th arms
\* none, opens no transport, and calls the error callback with the max-attempts error.
C10_Budget ==
    /\ [](hist.scheduled <= 10)
    /\ [][ClosureCounted =>
            IF hist.closures' <= 10
            THEN reconnectTimer' # 0 /\ hist.scheduled' = hist.scheduled + 1
            ELSE /\ reconnectTimer' = reconnectTimer
                 /\ strayTimers' = strayTimers
                 /\ hist.scheduled' = hist.scheduled
                 /\ ws' = 0
                 /\ \A k \in Socks : sock'[k] = "connecting" => sock[k] = "connecting"
                 /\ \E i \in 1..Len(calls') :
                        calls'[i] = <<"onConnectError", "Max reconnect attempts (10) reached">>
      ]_vars

C10_Witness ==
    /\ hist.closures = 11
    /\ hist.scheduled = 10
    /\ reconnectTimer = 0
    /\ ws = 0
    /\ \A k \in Socks : sock[k] = "free"
    /\ CalledBack("onConnectError", "Max reconnect attempts (10) reached")

\* C11: a hello-ok sets reconnectAttempts to 0 and backoffMs to 1000 and no other step
\* lowers either of them; while connected they keep these values, so that the closure
\* that ends a connected period arms the reconnect timer with 1000 ms as attempt 1.
C11_ResetAtHello ==
    /\ [](isConnected => reconnectAttempts = 0 /\ backoffMs = 1000)
    /\ [][/\ \A id \in DOMAIN futures :
                HelloArrives(id) => reconnectAttempts' = 0 /\ backoffMs' = 1000
          /\ (reconnectAttempts' < reconnectAttempts \/ backoffMs' < backoffMs) =>
                \E id \in DOMAIN futures : HelloArrives(id)
          /\ (isConnected /\ ClosureCounted) => reconnectTimer' = 1000 /\ reconnectAttempts' = 1
         ]_vars

\* the hello-ok has just arrived
C11_Witness ==
    /\ isConnected
    /\ reconnectAttempts = 0
    /\ backoffMs = 1000
    /\ \E i \in 1..Len(calls) : calls[i][1] = "onHelloOk"

StopCalled == ~closed /\ closed'

\* C12: stop() rejects every outstanding request, the connect request included, with
\* 'Gateway client stopped', empties the pending map, leaves the tick watchdog, the
\* connect fallback timer and the reconnect timer unarmed and isConnected false.
C12_Stop ==
    [][StopCalled =>
        /\ \A id \in DOMAIN futures :
              futures[id].state = "pending" =>
                 /\ id \in DOMAIN futures'
                 /\ futures'[id].state = "rejected"
                 /\ futures'[id].value = "Gateway client stopped"
        /\ pending' = EmptyMap
        /\ ~tickTimer'
        /\ ~connectTimer'
        /\ reconnectTimer' = 0
        /\ ~isConnected'
        /\ ws' = 0
      ]_vars

\* stop() was called with the connect request and an application request outstanding
C12_Witness ==
    /\ closed
    /\ pending = EmptyMap
    /\ {<<"c", 1>>, <<"a", 1>>} \subseteq DOMAIN futures
    /\ \A id \in {<<"c", 1>>, <<"a", 1>>} :
          futures[id].state = "rejected" /\ futures[id].value = "Gateway client stopped"

\* C13: once stop() was called, the reconnect timer is never armed again, nothing is
\* scheduled and no transport is opened: the close event of the stopped transport
\* schedules nothing, a reconnect timeout that is still pending opens nothing when it
\* expires, and start() does nothing.
C13_StaysStopped ==
    /\ [](closed => reconnectTimer = 0)
    /\ [][closed =>
            /\ closed'
            /\ strayTimers' <= strayTimers
            /\ hist.scheduled' = hist.scheduled
            /\ \A k \in Socks : sock'[k] = "connecting" => sock[k] = "connecting"
         ]_vars

\* a transport closed after stop(): closures that scheduled no reconnect
C13_Witness ==
    /\ closed
    /\ hist.closures > reconnectAttempts
    /\ \A k \in Socks : sock[k] = "free"

ReconnectPending == ~closed /\ reconnectTimer # 0
Opening == ws # 0 /\ sock[ws] = "connecting"
ArmedByClosure ==
    [][(ClosureCounted /\ reconnectAttempts < maxReconnectAttempts) => reconnectTimer' # 0]_vars

\* C14 as stated: a closure before stop() and within the budget arms the reconnect
\* timer, and a new transport is eventually opened.
C14_Original == ArmedByClosure /\ (ReconnectPending ~> Opening)

\* C14: a closure before stop() and within the budget arms the reconnect timer, and
\* eventually a new transport is opened or stop() is called.
C14_Reconnects == ArmedByClosure /\ (ReconnectPending ~> (Opening \/ closed))

\* a transport opened by the reconnect timer
C14_Witness ==
    /\ ~closed
    /\ Opening
    /\ reconnectAttempts >= 1
    /\ reconnectTimer = 0

\* what the events a[i], a[i+1], ... must produce when the last seq seen is prev: a
\* warning before an event whose seq exceeds the previous seq by more than one, and
\* one delivery of every event
RECURSIVE ExpectedLog(_, _, _)
ExpectedLog(a, i, prev) ==
    IF i > Len(a) THEN <<>>
    ELSE LET e == a[i]
             gap == e[2] /\ prev.set /\ e[3] > prev.n + 1
             seen == IF e[2] THEN [set |-> TRUE, n |-> e[3]] ELSE prev
         IN  (IF gap THEN << <<"console.warn", e[3]>> >> ELSE <<>>)
                \o << <<"onEvent", e>> >>
                \o ExpectedLog(a, i + 1, seen)

\* C15: the warnings logged and the events handed to onEvent are, in this order, those
\* of the events that arrived: a gap warning exactly for an event whose seq is greater
\* than the previous seq plus one, none for the first event with a seq, and every
\* event delivered once in the order of arrival.
C15_GapWarnings == hist.log = ExpectedLog(hist.arrived, 1, NoSeq)

\* the events with seq 1, 2, 5: one warning, three deliveries
C15_Witness ==
    /\ hist.arrived = << <<"chat", TRUE, 1>>, <<"chat", TRUE, 2>>, <<"chat", TRUE, 5>> >>
    /\ hist.log = << <<"onEvent", <<"chat", TRUE, 1>> >>, <<"onEvent", <<"chat", TRUE, 2>> >>,
                     <<"console.warn", 5>>, <<"onEvent", <<"chat", TRUE, 5>> >> >>

SeqEventArrives == Len(hist.arrived') = Len(hist.arrived) + 1 /\ hist.arrived'[Len(hist.arrived')][2]

\* C16: an event whose seq is not greater than the last seq seen is warned about, and
\* the last seq seen never decreases.
C16_OutOfOrder ==
    [][(lastSeq.set /\ SeqEventArrives) =>
          /\ lastSeq'.n >= lastSeq.n
          /\ hist.arrived'[Len(hist.arrived')][3] <= lastSeq.n =>
                \E i \in 1..Len(calls') : calls'[i][1] = "console.warn"
      ]_vars

Stale == lastTick.age > 2 * tickIntervalMs
TimedOut(k) == sock[k] = "closing" /\ wire[k].closeCode = CloseTickTimeout

\* C17: a check of the tick watchdog on a connected client closes the transport, with
\* code 4000, if and only if the time since the liveness mark exceeds twice the tick
\* interval; the mark is set at hello-ok and by every tick event; the close event of
\* that transport rejects the pending requests and schedules a reconnect as any
\* closure does.
C17_TickWatchdog ==
    /\ [][(TickTimerFires /\ isConnected /\ ~closed /\ ws # 0 /\ sock[ws] = "open") =>
             IF Stale THEN TimedOut(ws)' ELSE sock' = sock /\ wire' = wire]_vars
    /\ [][(\E k \in Socks : ~TimedOut(k) /\ TimedOut(k)') =>
             TickTimerFires /\ Stale /\ ~closed]_vars
    /\ [][((\E id \in DOMAIN futures : HelloArrives(id))
             \/ (Len(hist.arrived') > Len(hist.arrived)
                   /\ hist.arrived'[Len(hist.arrived')][1] = "tick")) =>
             lastTick' = [set |-> TRUE, age |-> 0]]_vars
    /\ [][(~closed /\ ws # 0 /\ TimedOut(ws) /\ sock'[ws] = "free") =>
             /\ \A id \in DOMAIN pending :
                   futures'[id].state = "rejected" /\ futures'[id].value = "Gateway closed"
             /\ pending' = EmptyMap
             /\ ~isConnected'
             /\ reconnectAttempts' = reconnectAttempts + 1
             /\ reconnectTimer' = backoffMs]_vars

\* the watchdog has closed the transport of a connected client that has a request
\* outstanding
C17_Witness ==
    /\ ws # 0 /\ TimedOut(ws)
    /\ isConnected
    /\ Stale
    /\ \E id \in DOMAIN pending : id[1] = "a"

\* a frame that is not JSON, the JSON null, a frame of an unknown type or a response
\* to no pending request is handed to handleMessage
StrayFrameArrives == \E k \in Socks, f \in StrayFrames : Frame(k, f)

\* C18: a frame that is not valid JSON, has an unknown type, or is a response whose id
\* matches no pending request leaves the state of the connection as it was: the
\* transports, the pending map and the futures, isConnected, lastSeq, the liveness
\* mark, every timer, the counters and the token store; no callback of the caller is
\* invoked (a parse error is logged).
C18_Discarded ==
    [][StrayFrameArrives =>
          /\ <<sock, ws, closed, pending, wire>>' = <<sock, ws, closed, pending, wire>>
          /\ <<isConnected, helloOk, lastSeq, lastTick, tickIntervalMs>>'
                = <<isConnected, helloOk, lastSeq, lastTick, tickIntervalMs>>
          /\ <<connectTimer, reconnectTimer, strayTimers, tickTimer>>'
                = <<connectTimer, reconnectTimer, strayTimers, tickTimer>>
          /\ <<backoffMs, reconnectAttempts, connectNonce, connectSent, store, opts>>'
                = <<backoffMs, reconnectAttempts, connectNonce, connectSent, store, opts>>
          /\ futures' = Held(futures, pending)
          /\ hist.log' = hist.log
          /\ \A i \in 1..Len(calls') : calls'[i][1] = "console.error"
      ]_vars

\* a response to no pending request has arrived on a connected client with a
\* request outstanding, after an event with a seq
C18_Witness ==
    /\ hist.rx = "res"
    /\ isConnected /\ tickTimer /\ lastSeq.set
    /\ \E id \in DOMAIN pending : id[1] = "a"

\* the gateway's terminal response ok:false to the outstanding application request id
RequestRefused(id) ==
    /\ id \in DOMAIN futures /\ id \in DOMAIN futures'
    /\ id[1] = "a"
    /\ futures[id].state = "pending"
    /\ futures'[id].state = "rejected"
    /\ futures'[id].value \notin LocalErrors

\* C19: a terminal response ok:false to an application request rejects the future of
\* that request only: the other pending entries and their futures, the transports,
\* isConnected, the reconnect counters and the timers stay as they were, and the
\* error callback is not invoked.
C19_RequestError ==
    [][\A id \in DOMAIN futures :
          RequestRefused(id) =>
             /\ pending' = MapDel(pending, id)
             /\ \A j \in DOMAIN futures \ {id} : j \in DOMAIN pending => futures'[j] = futures[j]
             /\ <<sock, ws, closed, isConnected>>' = <<sock, ws, closed, isConnected>>
             /\ <<reconnectAttempts, backoffMs, reconnectTimer, connectTimer, tickTimer>>'
                   = <<reconnectAttempts, backoffMs, reconnectTimer, connectTimer, tickTimer>>
             /\ store' = store
             /\ \A i \in 1..Len(calls') : calls'[i][1] # "onConnectError"
      ]_vars

\* one of two outstanding application requests was refused on a connected client
C19_Witness ==
    /\ isConnected
    /\ \E id \in DOMAIN futures :
          /\ id[1] = "a"
          /\ futures[id].state = "rejected"
          /\ futures[id].value \notin LocalErrors
          /\ \E j \in DOMAIN pending : j[1] = "a" /\ j # id

\* the gateway's response ok:false to the outstanding connect request id
ConnectRefused(id) ==
    /\ id \in DOMAIN futures /\ id \in DOMAIN futures'
    /\ id[1] = "c"
    /\ futures[id].state = "pending"
    /\ futures'[id].state = "rejected"
    /\ futures'[id].value \notin LocalErrors

ConnectFailed(k) == sock[k] = "closing" /\ wire[k].closeCode = CloseConnectFailed

\* what the close event of a transport does while stop() has not been called
OrdinaryClosure ==
    /\ ws' = 0
    /\ ~isConnected'
    /\ pending' = EmptyMap
    /\ reconnectAttempts' = reconnectAttempts + 1
    /\ IF reconnectAttempts' <= maxReconnectAttempts
       THEN reconnectTimer' = backoffMs /\ backoffMs' = nextBackoff(backoffMs)
       ELSE /\ reconnectTimer' = reconnectTimer /\ backoffMs' = backoffMs
            /\ \E i \in 1..Len(calls') :
                   calls'[i] = <<"onConnectError", "Max reconnect attempts (10) reached">>
    /\ \E i \in 1..Len(calls') : calls'[i][1] = "onClose"

\* C20: a response that is not ok to the connect request invokes the error callback
\* with the error and closes the transport with code 1008, isConnected staying false;
\* the close event of that transport does what the close event of any transport
\* does: isConnected false, the reconnect scheduled or given up after 10 attempts.
C20_ConnectRefused ==
    /\ [][\A id \in DOMAIN futures :
             ConnectRefused(id) =>
                /\ \E i \in 1..Len(calls') :
                       calls'[i] = <<"onConnectError", futures'[id].value>>
                /\ ws # 0 /\ ws' = ws /\ sock[ws] = "open" /\ ConnectFailed(ws)'
                /\ ~isConnected /\ ~isConnected'
                /\ reconnectTimer' = reconnectTimer
         ]_vars
    /\ [][(ClosureCounted /\ \E k \in Socks : sock[k] # "free" /\ sock'[k] = "free") =>
             OrdinaryClosure]_vars
    /\ [][(~closed /\ \E k \in Socks : ConnectFailed(k) /\ sock'[k] = "free") =>
             OrdinaryClosure]_vars

\* the connect request was refused: the error callback has run and the transport is
\* closing with code 1008
C20_Witness ==
    /\ ws # 0 /\ ConnectFailed(ws)
    /\ ~isConnected /\ ~closed
    /\ \E i \in 1..Len(calls) : calls[i][1] = "onConnectError"
    /\ \E id \in DOMAIN futures : id[1] = "c" /\ futures[id].state = "rejected"

\* request() is called: the future id is new
RequestCalled(id) == id[1] = "a" /\ id \notin DOMAIN futures /\ id \in DOMAIN futures'
Sent == \E i \in 1..Len(calls') : calls'[i][1] = "ws.send"

\* C21: request() called while there is no transport, or while the transport is not
\* open (connecting, closing, after stop()), is rejected at once with 'Gateway not
\* connected', writes no frame and adds nothing to the pending map.
C21_NotConnected ==
    [][\A id \in DOMAIN futures' :
          (RequestCalled(id) /\ (ws = 0 \/ sock[ws] # "open")) =>
             /\ futures'[id].state = "rejected"
             /\ futures'[id].value = "Gateway not connected"
             /\ ~Sent
             /\ wire' = wire
             /\ pending' = pending
      ]_vars

\* request() was called while the transport was connecting
C21_Witness ==
    /\ ws # 0 /\ sock[ws] = "connecting"
    /\ pending = EmptyMap
    /\ \E id \in DOMAIN futures :
          /\ id[1] = "a"
          /\ futures[id].state = "rejected"
          /\ futures[id].value = "Gateway not connected"

\* the future of request id is completed by the response res
SettledBy(id, res) ==
    /\ id \notin DOMAIN pending'
    /\ id \in DOMAIN futures'
    /\ IF res.ok
       THEN futures'[id].state = "resolved" /\ futures'[id].value = res.payload
       ELSE /\ futures'[id].state = "rejected"
            /\ futures'[id].value = (IF res.msg = None THEN "Unknown error" ELSE res.msg)

\* C22: a response with status 'accepted' to a request issued with expectFinal leaves
\* the future pending and the pending entry in place, and the first response after it
\* whose status is not 'accepted' completes the future; a request issued without
\* expectFinal is completed by the first response, an 'accepted' one too.
C22_ExpectFinal ==
    [][\A k \in Socks, res \in Responses :
          (res.id[1] = "a" /\ res.id \in DOMAIN pending /\ Response(k, res)) =>
             IF pending[res.id].expectFinal /\ res.payload.status = "accepted"
             THEN /\ res.id \in DOMAIN pending' /\ pending'[res.id] = pending[res.id]
                  /\ futures'[res.id].state = "pending"
             ELSE SettledBy(res.id, res)
      ]_vars

\* a request issued with expectFinal was acknowledged and then completed
C22_Witness ==
    \E id \in DOMAIN futures :
        /\ futures[id].expectFinal
        /\ futures[id].acked
        /\ futures[id].state = "resolved"
        /\ futures[id].value.status = "final"

\* the token load(d, r) returns from the file f, None when it returns none
Loaded(f, d, r) == loadDeviceAuthToken(f, d, r).token

\* store(d, a, ta) and then store(d, b, tb) on the file: both tokens are loaded back
BothKept(d, a, ta, b, tb) ==
    LET f == storeDeviceAuthToken(storeDeviceAuthToken(store, d, a, ta, <<>>), d, b, tb, <<>>)
    IN  Loaded(f, d, a) = ta /\ Loaded(f, d, b) = tb

\* store(d2, b, tb) on the file, d2 another device than the file's: the table is d2's
\* and holds that entry alone; nothing is loaded for the other device or role
OtherDevice(d2, b, tb) ==
    LET f == storeDeviceAuthToken(store, d2, b, tb, <<>>) IN
    (store.exists /\ store.deviceId # d2) =>
       /\ f.deviceId = d2
       /\ DOMAIN f.tokens = {normalizeRole(b)}
       /\ \A a \in StoreRoles :
             /\ ~loadDeviceAuthToken(f, store.deviceId, a).found
             /\ normalizeRole(a) # normalizeRole(b) => ~loadDeviceAuthToken(f, d2, a).found

\* C23 as stated: the two tokens are kept for any two roles that differ.
C23_Original ==
    /\ \A d \in StoreDevices, a \in StoreRoles, b \in StoreRoles, ta \in StoreTokens,
          tb \in StoreTokens :
          a # b => BothKept(d, a, ta, b, tb)
    /\ \A d2 \in StoreDevices, b \in StoreRoles, tb \in StoreTokens : OtherDevice(d2, b, tb)

\* C23, amended: the two tokens are kept for any two roles that differ after trimming;
\* a store under another deviceId leaves a table of that device with the one entry.
C23_TokenScoping ==
    /\ \A d \in StoreDevices, a \in StoreRoles, b \in StoreRoles, ta \in StoreTokens,
          tb \in StoreTokens :
          normalizeRole(a) # normalizeRole(b) => BothKept(d, a, ta, b, tb)
    /\ \A d2 \in StoreDevices, b \in StoreRoles, tb \in StoreTokens : OtherDevice(d2, b, tb)

\* two roles stored for one device, then loaded
C23_Witness ==
    /\ store.exists /\ store.deviceId = DeviceId
    /\ DOMAIN store.tokens = {RoleO, RoleV}
    /\ store.tokens[RoleO].token = "T1" /\ store.tokens[RoleV].token = "T2"
    /\ calls = << <<"load", [deviceId |-> DeviceId, role |-> RoleV], [found |-> TRUE, token |-> "T2"]>> >>

\* a list of scopes that is trimmed, without empty scopes, without duplicates, sorted
Normalized(sc) ==
    /\ \A i \in 1..Len(sc) : sc[i] # <<>> /\ Head(sc[i]) # " " /\ sc[i][Len(sc[i])] # " "
    /\ \A i, j \in 1..Len(sc) : i < j => sc[i] # sc[j] /\ StrLeq(sc[i], sc[j])

\* C24: the keys of the token table are trimmed roles, so it holds one entry per
\* trimmed role; store, load and clear called with a role and with the same role
\* surrounded by whitespace do the same; each entry's role is its key, and its scopes
\* are trimmed, free of duplicates and sorted.
C24_OnePerRole ==
    /\ store.exists =>
          \A k \in DOMAIN store.tokens :
             /\ k = normalizeRole(k)
             /\ store.tokens[k].role = k
             /\ Normalized(store.tokens[k].scopes)
    /\ \A d \in StoreDevices, r \in StoreRoles :
          LET padded == <<" ">> \o r \o <<" ">> IN
          /\ loadDeviceAuthToken(store, d, padded) = loadDeviceAuthToken(store, d, r)
          /\ clearDeviceAuthToken(store, d, padded) = clearDeviceAuthToken(store, d, r)
          /\ \A tk \in StoreTokens, sc \in ScopeLists :
                storeDeviceAuthToken(store, d, padded, tk, sc)
                   = storeDeviceAuthToken(store, d, r, tk, sc)

\* a token stored under ' o' with the scopes 'b', 'a': the entry is under 'o' with the
\* scopes 'a', 'b'
C24_Witness ==
    /\ Len(calls) = 1 /\ calls[1][1] = "store"
    /\ calls[1][2].role = RolePadded
    /\ calls[1][2].scopes = << <<"b">>, <<"a">> >>
    /\ store.tokens[RoleO].scopes = << <<"a">>, <<"b">> >>
    /\ RolePadded \notin DOMAIN store.tokens

\* the file holds no token that load(d, r) could return: it is missing, not JSON, of
\* another version or without a table, belongs to another device, or has no entry
\* with a string token for the role
NoToken(f, d, r) ==
    \/ f.form \in {"missing", "text", "version", "notable"}
    \/ f.deviceId # d
    \/ normalizeRole(r) \notin DOMAIN f.tokens
    \/ f.tokens[normalizeRole(r)].token = NotAString

\* C25: load(deviceId, role) returns none and leaves the file as it is when the file is
\* missing, not valid JSON, of a wrong version, without a token table, of another
\* deviceId or without a well-formed entry for the role; otherwise it returns the
\* entry's token, the file unchanged as well.
C25_LoadNeverFails ==
    [][(Len(calls') = 1 /\ calls'[1][1] = "load") =>
          LET arg == calls'[1][2]
              res == calls'[1][3]
          IN  /\ store' = store
              /\ IF NoToken(store, arg.deviceId, arg.role)
                 THEN res = NoEntry
                 ELSE res.found /\ res.token = store.tokens[normalizeRole(arg.role)].token
      ]_vars

\* load was called on a file that is not JSON
C25_Witness ==
    /\ store.form = "text"
    /\ Len(calls) = 1 /\ calls[1][1] = "load"
    /\ calls[1][3] = NoEntry

\* loadOrCreate was called and has returned an identity
Returned == Len(calls') = 1 /\ calls'[1][1] = "loadOrCreate" /\ ~calls'[1][3].thrown
Called == Len(calls') = 1 /\ calls'[1][1] = "loadOrCreate"

\* C26: the identity loadOrCreate returns has deviceId = hash(public key), the record
\* it leaves is that identity, and a second call on that record returns the same
\* identity and leaves the record as it is.
C26_Fingerprint ==
    [][Returned =>
          LET id == calls'[1][3] IN
          /\ id.deviceId = fingerprintPublicKey(id.publicKeyPem)
          /\ identity'.form = "record"
          /\ identity'.deviceId = fingerprintPublicKey(identity'.publicKeyPem)
          /\ identity'.publicKeyPem = id.publicKeyPem
          /\ identity'.privateKeyPem = id.privateKeyPem
          /\ \A k \in KeyPairs, w \in BOOLEAN :
                loadOrCreateDeviceIdentity(identity', k, w) = [id EXCEPT !.file = identity']
      ]_vars

\* a record whose deviceId did not match its public key was corrected
C26_Witness ==
    /\ Len(calls) = 1 /\ calls[1][1] = "loadOrCreate"
    /\ calls[1][4].form = "record" /\ calls[1][4].deviceId = "stale"
    /\ calls[1][3].deviceId = DeviceId
    /\ identity = [calls[1][4] EXCEPT !.deviceId = DeviceId]

\* C27: a key pair is generated only when there is no record: a record that is there
\* is returned with its keys, and a file that cannot be read or parsed makes the call
\* fail and is left as it is.
C27_NeverRegenerates ==
    [][(Called /\ identity.form # "missing") =>
          IF identity.form = "record" /\ identity.publicKeyPem # BadPem
          THEN Returned =>
                  /\ calls'[1][3].publicKeyPem = identity.publicKeyPem
                  /\ calls'[1][3].privateKeyPem = identity.privateKeyPem
          ELSE calls'[1][3].thrown /\ identity' = identity
      ]_vars

PayloadOf(in) ==
    buildDeviceAuthPayload(in.version, DeviceId, ClientId, ClientMode, in.role, in.scopes,
                           SignedAt, in.token, in.nonce)
HasNonce(n) == n # None /\ n # ""

\* C28: the payload signed in a connect request is tagged v2 and ends with the nonce
\* when there is a non-empty nonce, and is tagged v1 with eight fields otherwise; the
\* nonce of the request's device block is the nonce kept from the challenge and the
\* one signed; built without a version override the same holds of every input, and
\* the v1 and the v2 payload of the same other fields differ.
C28_PayloadVersion ==
    /\ [](\A k \in Socks :
            wire[k].frames > 0 =>
               IF HasNonce(wire[k].last.device.nonce)
               THEN SignedV2(wire[k].last, wire[k].last.device.nonce)
               ELSE SignedV1(wire[k].last))
    /\ [][\A k \in Socks :
            ConnectFrameSent(k) => wire'[k].last.device.nonce = connectNonce']_vars
    /\ [](\A in \in PayloadInputs :
            /\ in.version = None =>
                  IF HasNonce(in.nonce)
                  THEN /\ PayloadOf(in)[1] = "v2" /\ Len(PayloadOf(in)) = 9
                       /\ PayloadOf(in)[9] = in.nonce
                  ELSE PayloadOf(in)[1] = "v1" /\ Len(PayloadOf(in)) = 8
            /\ PayloadOf([in EXCEPT !.version = "v1"]) # PayloadOf([in EXCEPT !.version = "v2"]))

\* a connect request signed over v2 with the nonce n2 on the current transport, after
\* an earlier transport was closed
C28_Witness ==
    /\ ws # 0 /\ wire[ws].frames = 1
    /\ wire[ws].last.device.nonce = "n2"
    /\ SignedV2(wire[ws].last, "n2")
    /\ hist.closures > 0

Built(in) == calls = << <<"buildDeviceAuthPayload", in, PayloadOf(in)>> >>
ScopeSet(in) == {in.scopes[i] : i \in 1..Len(in.scopes)}

\* C29: the scopes field of a signed payload is the sorted comma-joined list of the
\* scopes, so that two payloads built from inputs differing only in the order of
\* their scopes have the same scopes field.
C29_SortedScopes ==
    \A in \in PayloadInputs :
       Built(in) =>
          /\ calls[1][3][6] = Join(SortSet(ScopeSet(in)), ",")
          /\ \A other \in PayloadInputs :
                ScopeSet(other) = ScopeSet(in) => PayloadOf(other)[6] = calls[1][3][6]

Reported(err) == \E i \in 1..Len(calls') : calls'[i] = <<"onConnectError", err>>
FailsToOpen(k) == SockError(k) /\ sock[k] = "connecting"

\* C30: every connection-level fault reaches the error callback, on the first attempt
\* and on every reconnect: the error of a transport that fails to open, the refusal
\* of a connect request, and the exhaustion of the reconnect attempts.
C30_FaultsSurfaced ==
    [][/\ \A k \in Socks : FailsToOpen(k) => Reported("WebSocket error")
       /\ \A id \in DOMAIN futures : ConnectRefused(id) => Reported(futures'[id].value)
       /\ (ClosureCounted /\ hist.closures' > maxReconnectAttempts) =>
             Reported("Max reconnect attempts (10) reached")
      ]_vars

\* reconnection has been abandoned: the attempts are used up and nothing is pending
Abandoned == ~closed /\ reconnectAttempts > maxReconnectAttempts /\ Idle
\* the transport opened by a start() after that, no hello-ok received since
Resumed(k) == ~closed /\ reconnectAttempts > maxReconnectAttempts /\ ws = k /\ sock[k] # "free"

\* C31: after reconnection has been abandoned, start() opens a new transport, and a
\* closure of that transport before a hello-ok arms the reconnect timer again
\* instead of being reported as the end of the attempts.
C31_ResumeAfterGiveUp ==
    [][/\ (Abandoned /\ StartLong) => ws' # 0 /\ sock'[ws'] = "connecting"
       /\ \A k \in Socks :
             (Resumed(k) /\ SockClose(k)) =>
                /\ reconnectTimer' # 0
                /\ ~Reported("Max reconnect attempts (10) reached")
      ]_vars

\* C32: the connect fallback timer armed at a transport's open does not fire once
\* that transport has closed: when it fires the transport is open, so that no connect
\* attempt (token load, signing, failure handling) is made without one.
C32_TimerCancelled ==
    [][ConnectTimerFires =>
          /\ ws # 0 /\ sock[ws] = "open"
          /\ ~\E i \in 1..Len(calls') : calls'[i] = <<"onConnectError", "Gateway not connected">>
          /\ store' = store
      ]_vars

\* the transports that are opening or open
Live == {k \in Socks : sock[k] \in {"connecting", "open"}}
\* the reconnect timeouts that are pending
ReconnectsPending == (IF reconnectTimer # 0 THEN 1 ELSE 0) + strayTimers

\* C33: whatever the order of start(), stop(), timer firings and transport events,
\* at most one transport is opening or open and at most one reconnect timeout is
\* pending; start() called while a transport exists or a reconnect is pending
\* creates no transport.
C33_OneTransport ==
    /\ [](Cardinality(Live) <= 1 /\ ReconnectsPending <= 1)
    /\ [][(StartAny /\ ~Idle) => Live' = Live]_vars

\* the connect request id is answered with a hello-ok
ConnectAccepted(id) ==
    /\ id \in DOMAIN futures /\ id \in DOMAIN futures'
    /\ id[1] = "c"
    /\ futures[id].state = "pending"
    /\ futures'[id].state = "resolved"

FrameCarriesLoaded ==
    \A k \in Socks :
       ConnectFrameSent(k) =>
          wire'[k].last.auth.token = pickAuthToken(Stored(store), opts.token)

ConnectFails(id) ==
    /\ id \in DOMAIN futures /\ id \in DOMAIN futures'
    /\ id[1] = "c"
    /\ futures[id].state = "pending"
    /\ futures'[id].state = "rejected"

\* C35: with a stored device token and no shared token, a failed connect request
\* leaves the token file as it is; the file changes only when a handshake succeeds;
\* every connect request carries the stored token; and every closure arms the
\* reconnect timer unless stop() was called or 10 attempts have failed in a row.
C35_StoredOnly ==
    [][/\ \A id \in DOMAIN futures : ConnectFails(id) => store' = store
       /\ store' # store => \E id \in DOMAIN futures : ConnectAccepted(id)
       /\ \A k \in Socks :
             (ConnectFrameSent(k) /\ Stored(store).found) =>
                wire'[k].last.auth.token = Stored(store).token
       /\ ClosureCounted =>
             IF hist.closures' <= maxReconnectAttempts
             THEN reconnectTimer' # 0
             ELSE reconnectTimer' = 0 /\ Reported("Max reconnect attempts (10) reached")
      ]_vars

\* a connect request carrying the stored token has been refused by the gateway after
\* an earlier attempt failed, and the token is still stored
C35_Witness ==
    /\ opts.token = None
    /\ hist.closures >= 1
    /\ Stored(store).found /\ Stored(store).token = "D"
    /\ \E id \in DOMAIN futures :
          /\ id[1] = "c"
          /\ futures[id].state = "rejected"
          /\ futures[id].value = "e1"
    /\ ws # 0 /\ wire[ws].last.auth.token = "D" /\ ConnectFailed(ws)

\* the first event with a seq that transport k delivers
FirstSeqEvent(k) == SeqEventArrives /\ ~wire[k].seqSeen /\ wire'[k].seqSeen

\* C36: the first event with a seq received on a transport opened by a reconnect is
\* not warned about as a gap, whatever seq the previous transport delivered last.
C36_GapPerConnection ==
    [][\A k \in Socks :
          FirstSeqEvent(k) => ~\E i \in 1..Len(calls') : calls'[i][1] = "console.warn"]_vars

\* an event frame is handed to handleMessage
EventFrameArrives == hist.rx' = "event"

\* C37: every event frame that arrives, connect.challenge and events before the
\* hello-ok included, is handed to onEvent, as the last thing its handler does, after
\* the last seq seen has been set to its seq.
C37_AllDispatched ==
    [][EventFrameArrives =>
          /\ Len(calls') > 0
          /\ LET last == calls'[Len(calls')] IN
                /\ last[1] = "onEvent"
                /\ last[2][2] => lastSeq' = [set |-> TRUE, n |-> last[2][3]]
      ]_vars

\* the file holds an entry that clear(d, r) addresses
Addressed(file, d, r) ==
    file.exists /\ file.deviceId = d /\ normalizeRole(r) \in DOMAIN file.tokens

\* C38: clear(deviceId, role) removes the entry of the trimmed role and nothing else,
\* and leaves the deviceId of the table; on a file that is missing, unreadable, of
\* another device or without an entry for the role it changes nothing.
C38_ClearFrame ==
    [][\A d \in StoreDevices, r \in StoreRoles :
          ClearToken(d, r) =>
             IF Addressed(store, d, r)
             THEN /\ store'.exists /\ store'.deviceId = store.deviceId
                  /\ DOMAIN store'.tokens = DOMAIN store.tokens \ {normalizeRole(r)}
                  /\ \A x \in DOMAIN store'.tokens : store'.tokens[x] = store.tokens[x]
             ELSE store' = store
      ]_vars

\* clear has removed one of two entries, addressed by a role with whitespace around it
C38_Witness ==
    /\ Len(calls) = 1 /\ calls[1][1] = "clear"
    /\ calls[1][2].role = RolePadded
    /\ Addressed(calls[1][4], calls[1][2].deviceId, calls[1][2].role)
    /\ DOMAIN calls[1][4].tokens = {RoleO, RoleV}
    /\ DOMAIN store.tokens = {RoleV}
    /\ store.tokens[RoleV] = calls[1][4].tokens[RoleV]

\* C39: for a caller that starts an idle connection only, while the connection has
\* no transport the pending map is empty, isConnected is false and the tick watchdog
\* is not armed; isConnected becomes true only when a hello-ok arrives, and is false
\* after every close event and after stop().
C39_NoTransport ==
    /\ [](ws = 0 => pending = EmptyMap /\ ~isConnected /\ ~tickTimer)
    /\ [][(~isConnected /\ isConnected') => \E id \in DOMAIN futures : ConnectAccepted(id)]_vars
    /\ [][(Stop \/ \E k \in Socks : SockClose(k)) => ~isConnected']_vars

\* the transport of a connected client has closed with a request outstanding
C39_Witness ==
    /\ ws = 0 /\ ~closed /\ helloOk
    /\ reconnectTimer # 0
    /\ \E id \in DOMAIN futures :
          /\ id[1] = "a"
          /\ futures[id].state = "rejected"
          /\ futures[id].value = "Gateway closed"

\* the token field of the payload signed for a connect request that sends auth
TokenSigned(auth) == IF auth.present /\ auth.token # None THEN auth.token ELSE ""

\* C40: in every connect request the payload signed covers the deviceId, the client
\* id, the client mode, the role and the scopes sent in that request, and the token
\* sent as auth.token, or the empty string when no token is sent.
C40_Consistent ==
    \A k \in Socks :
       wire[k].frames > 0 =>
          LET frame == wire[k].last
              p == Over(frame)
          IN  /\ p[2] = frame.device.id
              /\ p[3] = frame.client.id
              /\ p[4] = frame.client.mode
              /\ p[5] = frame.role
              /\ p[6] = Join(frame.scopes, ",")
              /\ p[8] = TokenSigned(frame.auth)

\* a connect request with a password and no token, for a role with whitespace around
\* it: the payload signed covers the empty token and the role as it was sent
C40_Witness ==
    \E k \in Socks :
        /\ wire[k].frames = 1
        /\ wire[k].last.auth.present /\ wire[k].last.auth.token = None
        /\ wire[k].last.auth.password = "P"
        /\ wire[k].last.role = RolePadded
        /\ Over(wire[k].last)[5] = RolePadded
        /\ Over(wire[k].last)[8] = ""

====
